---- MODULE Spec2Model ----
(***************************************************************************)
(* Docle email verification engine: the admission gates of the verify      *)
(* handler (rate-limit.ts) and the per-address evidence fusion (email.ts). *)
(* Times are milliseconds, as Date.now() returns them.                     *)
(***************************************************************************)
EXTENDS Integers, Sequences, FiniteSets, Bags, TLC

VARIABLES
    now,                \* Date.now()
    requestBuckets,     \* Map<string, RequestBucket>
    dailyBuckets,       \* Map<string, DailyBucket>
    concurrency,        \* Map<string, ConcurrencyTracker>
    globalDailyEmails,  \* let globalDailyEmails
    globalResetsAt,     \* let globalResetsAt
    client,             \* the caller whose requests are followed
    inflight,           \* bag of the client's requests suspended at an await
    last,               \* what the handler step just taken did (its response, if any)
    win,                \* when the client's 60 s window opened, admissions in it
    processed,          \* the client's addresses handed to the pipeline this UTC day
    mail,               \* one address on its way through the per-address pipeline
    tasks,              \* the callbacks of emailsToProcess.map in one request
    ops,                \* the outbound operations that request has started
    domainMaps,         \* domainMxMap, domainHealthMap, domainIntelMap, domainDkimMap
    limiter,            \* const limit = pLimit(config.dnsConcurrency)
    calls,              \* the per-domain lookups invoked, in the order of the calls
    response,           \* return { results } of that request
    bodyEmails,         \* body.emails of that request
    session,            \* one smtpSession
    dns,                \* lookupMx: its cache and one call on its way
    probe,              \* one provider-probe module and its callers
    evidence,           \* the arguments of one computeStatus / computeConfidence call
    serverIntel,        \* server-intel's serverMap and the last verdict passed through it
    bounce              \* bounce-db's bounceMap and reportBuckets, and the reports made

vars == <<now, requestBuckets, dailyBuckets, concurrency, globalDailyEmails,
          globalResetsAt, client, inflight, last, win, processed, mail,
          tasks, ops, domainMaps, limiter, calls, response, bodyEmails,
          session, dns, probe, evidence, serverIntel, bounce>>

\* One request's fan-out, and the collectors looked at one at a time.
batchVars == <<tasks, ops, domainMaps, limiter, calls, response, bodyEmails>>
auxVars == <<serverIntel, bounce>>
ioVars == <<batchVars, session, dns, probe, evidence, auxVars>>

gateVars == <<now, requestBuckets, dailyBuckets, concurrency, globalDailyEmails,
              globalResetsAt, client, inflight, last, win, processed>>

\* ------------------------------------------------------------------ bounds
MaxReqs == 2
MaxTicks == 3
MaxViolations == 2

\* Runtime configuration (nuxt.config.ts runtimeConfig), scaled down.
MaxEmailsPerRequest == 2
RateLimitRequestsPerMinute == 1
RateLimitDailyEmailCap == 2
RateLimitMaxConcurrent == 1
RateLimitGlobalDailyCap == 3
RateLimitAgentRequestsPerMinute == 2
RateLimitAgentDailyEmailCap == 3
RateLimitAgentMaxConcurrent == 2

\* ------------------------------------------------------------ constants
WindowMs == 60000
BackoffCapMs == 3600000
DayMs == 86400000
SweepIntervalMs == 60000

TickMs == WindowMs \div 2
StartNow == DayMs - 2 * TickMs
MaxNow == StartNow + MaxTicks * TickMs

\* Math.min and Math.max; each argument is evaluated once.
Min(a, b) == CHOOSE m \in {IF x <= y THEN x ELSE y : x \in {a}, y \in {b}} : TRUE
Max(a, b) == CHOOSE m \in {IF x >= y THEN x ELSE y : x \in {a}, y \in {b}} : TRUE

RECURSIVE Pow2(_)
Pow2(n) == IF n <= 0 THEN 1 ELSE 2 * Pow2(n - 1)

\* Map helpers: a Map is a function whose DOMAIN is the set of keys present.
MapSet(m, k, v) == [x \in DOMAIN m \cup {k} |-> IF x = k THEN v ELSE m[x]]
MapDel(m, ks) == [x \in DOMAIN m \ ks |-> m[x]]

\* ------------------------------------------------------------ identities
\* A request carries an optional authenticated agent and a client IP.
Callers == {[agent |-> "none", ip |-> "10.0.0.1"], [agent |-> "a1", ip |-> "10.0.0.1"]}

rateLimitKey(c) == IF c.agent # "none" THEN "agent:a1" ELSE c.ip
reqPerMin(c) == IF c.agent # "none" THEN RateLimitAgentRequestsPerMinute
                ELSE RateLimitRequestsPerMinute
dailyCapOf(c) == IF c.agent # "none" THEN RateLimitAgentDailyEmailCap
                 ELSE RateLimitDailyEmailCap
maxConc(c) == IF c.agent # "none" THEN RateLimitAgentMaxConcurrent
              ELSE RateLimitMaxConcurrent

\* ------------------------------------------------------------ rate-limit.ts
nextMidnightUTC(t) == ((t \div DayMs) + 1) * DayMs

\* Variant: the expiry comparison inverted, a live bucket is replaced at every call.
getDailyBucketInverted(db, ip, t) ==
    IF ip \notin DOMAIN db \/ db[ip].resetsAt > t
    THEN MapSet(db, ip, [emailCount |-> 0, resetsAt |-> nextMidnightUTC(t),
                         violationCount |-> 0])
    ELSE db

\* getDailyBucket mutates dailyBuckets; the Map after the call.
getDailyBucket(db, ip, t) ==
    IF ip \notin DOMAIN db \/ db[ip].resetsAt <= t
    THEN MapSet(db, ip, [emailCount |-> 0, resetsAt |-> nextMidnightUTC(t),
                         violationCount |-> 0])
    ELSE db

\* Variant: count > maxPerMinute instead of >=, one request too many per window.
checkRequestRateOffByOne(rb, db, ip, maxPerMinute, t) ==
    IF ip \notin DOMAIN rb \/ rb[ip].expiresAt <= t
    THEN [allowed |-> TRUE, retryAfterMs |-> -1,
          requestBuckets |-> MapSet(rb, ip, [count |-> 1, expiresAt |-> t + WindowMs]),
          dailyBuckets |-> db]
    ELSE IF rb[ip].count > maxPerMinute
    THEN [allowed |-> FALSE, retryAfterMs |-> rb[ip].expiresAt - t,
          requestBuckets |-> rb, dailyBuckets |-> db]
    ELSE [allowed |-> TRUE, retryAfterMs |-> -1,
          requestBuckets |-> [rb EXCEPT ![ip].count = @ + 1],
          dailyBuckets |-> db]

checkRequestRate(rb, db, ip, maxPerMinute, t) ==
    IF ip \notin DOMAIN rb \/ rb[ip].expiresAt <= t
    THEN [allowed |-> TRUE, retryAfterMs |-> -1,
          requestBuckets |-> MapSet(rb, ip, [count |-> 1, expiresAt |-> t + WindowMs]),
          dailyBuckets |-> db]
    ELSE IF rb[ip].count >= maxPerMinute
    THEN LET daily == getDailyBucket(db, ip, t)
             violations == daily[ip].violationCount + 1
             backoffMs == Min(WindowMs * Pow2(violations - 1), BackoffCapMs)
         IN  [allowed |-> FALSE,
              retryAfterMs |-> Min(rb[ip].expiresAt - t, backoffMs),
              requestBuckets |-> rb,
              dailyBuckets |-> [daily EXCEPT ![ip].violationCount = violations]]
    ELSE [allowed |-> TRUE, retryAfterMs |-> -1,
          requestBuckets |-> [rb EXCEPT ![ip].count = @ + 1],
          dailyBuckets |-> db]

\* Variant: the gate only checks, it reserves nothing.
checkDailyEmailCapNoReserve(db, ip, requestedCount, dailyCap, t) ==
    LET daily == IF ip \notin DOMAIN db \/ db[ip].resetsAt <= t
                 THEN MapSet(db, ip, [emailCount |-> 0, resetsAt |-> nextMidnightUTC(t),
                                      violationCount |-> 0])
                 ELSE db
        remaining == Max(0, dailyCap - daily[ip].emailCount)
    IN  IF remaining = 0
        THEN [allowed |-> FALSE, allowedCount |-> 0,
              retryAfterMs |-> daily[ip].resetsAt - t, dailyBuckets |-> daily]
        ELSE [allowed |-> TRUE, allowedCount |-> Min(requestedCount, remaining),
              retryAfterMs |-> -1, dailyBuckets |-> daily]

checkDailyEmailCap(db, ip, requestedCount, dailyCap, t) ==
    LET daily == getDailyBucket(db, ip, t)
        remaining == Max(0, dailyCap - daily[ip].emailCount)
        allowedCount == Min(requestedCount, remaining)
    IN  IF remaining = 0
        THEN [allowed |-> FALSE, allowedCount |-> 0,
              retryAfterMs |-> daily[ip].resetsAt - t, dailyBuckets |-> daily]
        ELSE [allowed |-> TRUE, allowedCount |-> allowedCount, retryAfterMs |-> -1,
              dailyBuckets |-> [daily EXCEPT ![ip].emailCount = @ + allowedCount]]

\* Variant: the counter is incremented before the comparison, also when refusing.
checkGlobalCapChargeFirst(g, requestedCount, globalCap, t) ==
    LET g1 == IF t >= g.resetsAt
              THEN [emails |-> 0, resetsAt |-> nextMidnightUTC(t)]
              ELSE g
        g2 == [g1 EXCEPT !.emails = @ + requestedCount]
    IN  IF g2.emails > globalCap
        THEN [allowed |-> FALSE, retryAfterMs |-> g1.resetsAt - t, global |-> g2]
        ELSE [allowed |-> TRUE, retryAfterMs |-> -1, global |-> g2]

\* The global counter and its reset time as one value g = [emails, resetsAt].
checkGlobalCap(g, requestedCount, globalCap, t) ==
    LET g1 == IF t >= g.resetsAt
              THEN [emails |-> 0, resetsAt |-> nextMidnightUTC(t)]
              ELSE g
    IN  IF g1.emails + requestedCount > globalCap
        THEN [allowed |-> FALSE, retryAfterMs |-> g1.resetsAt - t, global |-> g1]
        ELSE [allowed |-> TRUE, retryAfterMs |-> -1,
              global |-> [g1 EXCEPT !.emails = @ + requestedCount]]

\* Variant: active > maxConcurrent instead of >=, one slot too many.
acquireConcurrencyOffByOne(c, ip, maxConcurrent) ==
    LET c1 == IF ip \notin DOMAIN c THEN MapSet(c, ip, [active |-> 0]) ELSE c
    IN  IF c1[ip].active > maxConcurrent
        THEN [allowed |-> FALSE, concurrency |-> c1]
        ELSE [allowed |-> TRUE, concurrency |-> [c1 EXCEPT ![ip].active = @ + 1]]

acquireConcurrency(c, ip, maxConcurrent) ==
    LET c1 == IF ip \notin DOMAIN c THEN MapSet(c, ip, [active |-> 0]) ELSE c
    IN  IF c1[ip].active >= maxConcurrent
        THEN [allowed |-> FALSE, concurrency |-> c1]
        ELSE [allowed |-> TRUE, concurrency |-> [c1 EXCEPT ![ip].active = @ + 1]]

\* Variant: the slot is never given back.
releaseConcurrencyNever(c, ip) == c

releaseConcurrency(c, ip) ==
    IF ip \in DOMAIN c /\ c[ip].active > 0
    THEN [c EXCEPT ![ip].active = @ - 1]
    ELSE c

\* The handler's trailing bookkeeping calls. The gates already reserved the
\* addresses (checkDailyEmailCap, checkGlobalCap), so nothing more is charged.
recordEmailsUsed(db, ip, count) == db
recordGlobalEmails(g, count) == g

\* ------------------------------------------------------------------ email.ts
\* Strings are sequences of tokens: an address is its local part, "@" and the
\* labels of its domain (<<"alice", "@", "example", "com">>), a host name is its
\* labels. A value that may be null or undefined is "true", "false" or "null";
\* an optional number is <<>> or <<n>>.

\* Tokens no address may contain (EMAIL_RE's character classes exclude them).
BadTokens == {"mailto:", " ", "Alice"}

\* String.prototype.toLowerCase on one token.
toLowerCase(tok) ==
    CASE tok = "Alice" -> "alice"
      [] tok = "MX1" -> "mx1"
      [] OTHER -> tok

RECURSIVE trimStart(_)
trimStart(e) == IF e # <<>> /\ Head(e) = " " THEN trimStart(Tail(e)) ELSE e

RECURSIVE trimEnd(_)
trimEnd(e) == IF e # <<>> /\ e[Len(e)] = " "
              THEN trimEnd(SubSeq(e, 1, Len(e) - 1)) ELSE e

normalizeEmail(raw) ==
    LET trimmed == trimEnd(trimStart(raw))
        lower == [i \in 1..Len(trimmed) |-> toLowerCase(trimmed[i])]
    IN  IF lower # <<>> /\ Head(lower) = "mailto:" THEN Tail(lower) ELSE lower

\* email.lastIndexOf("@"), counted from 1; 0 when there is none.
lastIndexOfAt(email) ==
    LET ats == {i \in 1..Len(email) : email[i] = "@"}
    IN  IF ats = {} THEN 0 ELSE CHOOSE i \in ats : \A j \in ats : j <= i

\* parseEmail; null is [null |-> TRUE].
parseEmail(email) ==
    LET at == lastIndexOfAt(email)
    IN  IF at < 2
        THEN [null |-> TRUE, local |-> <<>>, domain |-> <<>>]
        ELSE [null |-> FALSE, local |-> SubSeq(email, 1, at - 1),
              domain |-> SubSeq(email, at + 1, Len(email))]

\* EMAIL_RE: a non-empty local part, one "@", at least one domain label.
isValidSyntax(email) ==
    LET at == lastIndexOfAt(email)
    IN  /\ at >= 2
        /\ Len(email) > at
        /\ \A i \in 1..Len(email) : i # at => email[i] \notin BadTokens \cup {"@"}

ROLE_LOCAL_PARTS ==
    {<<"info">>, <<"sales">>, <<"support">>, <<"hello">>, <<"admin">>, <<"billing">>,
     <<"contact">>, <<"team">>, <<"security">>, <<"abuse">>, <<"noc">>}

\* The disposable-email-domains list, as far as the addresses below need it.
DISPOSABLE_SET == {<<"mailinator", "com">>}

\* Variant: only the role-based local parts are flagged.
getRiskFlagsRoleOnly(local, domain) ==
    IF local \in ROLE_LOCAL_PARTS THEN <<"Role-based address">> ELSE <<>>

getRiskFlags(local, domain) ==
    (IF local \in ROLE_LOCAL_PARTS THEN <<"Role-based address">> ELSE <<>>)
        \o (IF domain \in DISPOSABLE_SET THEN <<"Disposable domain">> ELSE <<>>)

MAJOR_PROVIDERS ==
    {<<"gmail", "com">>, <<"googlemail", "com">>,
     <<"yahoo", "com">>, <<"yahoo", "co", "uk">>, <<"yahoo", "co", "jp">>,
     <<"yahoo", "fr">>, <<"yahoo", "de">>, <<"yahoo", "it">>, <<"yahoo", "es">>,
     <<"yahoo", "ca">>, <<"yahoo", "com", "au">>, <<"yahoo", "com", "br">>,
     <<"yahoo", "co", "in">>, <<"ymail", "com">>, <<"rocketmail", "com">>,
     <<"outlook", "com">>, <<"hotmail", "com">>, <<"hotmail", "co", "uk">>,
     <<"hotmail", "fr">>, <<"hotmail", "de">>, <<"hotmail", "it">>, <<"hotmail", "es">>,
     <<"live", "com">>, <<"live", "co", "uk">>, <<"live", "fr">>, <<"live", "de">>,
     <<"msn", "com">>, <<"icloud", "com">>, <<"me", "com">>, <<"mac", "com">>,
     <<"protonmail", "com">>, <<"proton", "me">>, <<"pm", "me">>, <<"aol", "com">>,
     <<"zoho", "com">>, <<"zohomail", "com">>, <<"mail", "com">>,
     <<"gmx", "com">>, <<"gmx", "de">>, <<"gmx", "net">>,
     <<"fastmail", "com">>, <<"fastmail", "fm">>,
     <<"tutanota", "com">>, <<"tuta", "io">>, <<"yandex", "com">>, <<"yandex", "ru">>}

isMajorProvider(domain) == domain \in MAJOR_PROVIDERS

\* Variant: a provider's true is looked at before another provider's false.
computeStatusTrueFirst(syntaxOk, domain, mx, smtp, riskFlags, providers) ==
    IF ~syntaxOk \/ domain = <<>> THEN "Invalid"
    ELSE IF mx = "null" THEN "Unknown"
    ELSE IF mx # "true" THEN "Invalid"
    ELSE IF /\ smtp = "rejected"
            /\ providers.microsoftExists # "true"
            /\ providers.googleExists # "true"
            /\ providers.appleExists # "true" THEN "Invalid"
    ELSE IF providers.microsoftExists = "true" /\ Len(riskFlags) = 0 THEN "Valid"
    ELSE IF providers.googleExists = "true" /\ Len(riskFlags) = 0 THEN "Valid"
    ELSE IF providers.appleExists = "true" /\ Len(riskFlags) = 0 THEN "Valid"
    ELSE IF providers.microsoftExists = "false" THEN "Invalid"
    ELSE IF providers.googleExists = "false" THEN "Invalid"
    ELSE IF providers.appleExists = "false" THEN "Invalid"
    ELSE IF smtp \in {"catch-all", "greylisted"} \/ Len(riskFlags) > 0 THEN "Risky"
    ELSE IF smtp = "accepted" THEN "Valid"
    ELSE IF "true" \in {providers.hasGravatar, providers.hasGitHub,
                        providers.hasPgpKey, providers.hibpBreached} THEN "Valid"
    ELSE IF providers.isMajorProvider /\ smtp \in {"error", "null"} THEN "Valid"
    ELSE "Unknown"

\* Variant: an accepted SMTP verdict is looked at before the risk flags.
computeStatusAcceptedFirst(syntaxOk, domain, mx, smtp, riskFlags, providers) ==
    IF ~syntaxOk \/ domain = <<>> THEN "Invalid"
    ELSE IF mx = "null" THEN "Unknown"
    ELSE IF mx # "true" THEN "Invalid"
    ELSE IF /\ smtp = "rejected"
            /\ providers.microsoftExists # "true"
            /\ providers.googleExists # "true"
            /\ providers.appleExists # "true" THEN "Invalid"
    ELSE IF providers.microsoftExists = "false" THEN "Invalid"
    ELSE IF providers.googleExists = "false" THEN "Invalid"
    ELSE IF providers.appleExists = "false" THEN "Invalid"
    ELSE IF providers.microsoftExists = "true" /\ Len(riskFlags) = 0 THEN "Valid"
    ELSE IF providers.googleExists = "true" /\ Len(riskFlags) = 0 THEN "Valid"
    ELSE IF providers.appleExists = "true" /\ Len(riskFlags) = 0 THEN "Valid"
    ELSE IF smtp = "catch-all" THEN "Risky"
    ELSE IF smtp = "greylisted" THEN "Risky"
    ELSE IF smtp = "accepted" THEN "Valid"
    ELSE IF Len(riskFlags) > 0 THEN "Risky"
    ELSE IF providers.hasGravatar = "true" THEN "Valid"
    ELSE IF providers.hasGitHub = "true" THEN "Valid"
    ELSE IF providers.hasPgpKey = "true" THEN "Valid"
    ELSE IF providers.hibpBreached = "true" THEN "Valid"
    ELSE IF providers.isMajorProvider /\ smtp \in {"error", "null"} THEN "Valid"
    ELSE "Unknown"

computeStatus(syntaxOk, domain, mx, smtp, riskFlags, providers) ==
    IF ~syntaxOk \/ domain = <<>> THEN "Invalid"
    ELSE IF mx = "null" THEN "Unknown"
    ELSE IF mx # "true" THEN "Invalid"
    ELSE IF /\ smtp = "rejected"
            /\ providers.microsoftExists # "true"
            /\ providers.googleExists # "true"
            /\ providers.appleExists # "true" THEN "Invalid"
    ELSE IF providers.microsoftExists = "false" THEN "Invalid"
    ELSE IF providers.googleExists = "false" THEN "Invalid"
    ELSE IF providers.appleExists = "false" THEN "Invalid"
    ELSE IF providers.microsoftExists = "true" /\ Len(riskFlags) = 0 THEN "Valid"
    ELSE IF providers.googleExists = "true" /\ Len(riskFlags) = 0 THEN "Valid"
    ELSE IF providers.appleExists = "true" /\ Len(riskFlags) = 0 THEN "Valid"
    ELSE IF smtp = "catch-all" THEN "Risky"
    ELSE IF smtp = "greylisted" THEN "Risky"
    ELSE IF Len(riskFlags) > 0 THEN "Risky"
    ELSE IF smtp = "accepted" THEN "Valid"
    ELSE IF providers.hasGravatar = "true" THEN "Valid"
    ELSE IF providers.hasGitHub = "true" THEN "Valid"
    ELSE IF providers.hasPgpKey = "true" THEN "Valid"
    ELSE IF providers.hibpBreached = "true" THEN "Valid"
    ELSE IF providers.isMajorProvider /\ smtp \in {"error", "null"} THEN "Valid"
    ELSE "Unknown"

\* The loop `for (const flag of riskFlags)` of computeConfidence.
RECURSIVE applyRiskFlags(_, _)
applyRiskFlags(score, flags) ==
    IF flags = <<>> THEN score
    ELSE LET flag == Head(flags)
             s1 == IF flag = "Disposable domain" THEN Min(score, 25) ELSE score
             s2 == IF flag = "Role-based address" THEN s1 - 10 ELSE s1
         IN  applyRiskFlags(s2, Tail(flags))

\* The switch on the SMTP verdict.
baseScore(smtp, providers) ==
    CASE smtp = "accepted" -> 85
      [] smtp = "rejected" -> 3
      [] smtp = "catch-all" -> 45
      [] smtp = "greylisted" -> 40
      [] smtp \in {"error", "null"} -> IF providers.isMajorProvider THEN 65 ELSE 35
      [] OTHER -> 30

\* A Microsoft, Google or Apple result: true lifts the score to at least boost,
\* false cuts it to at most 5.
providerSignal(score, exists, boost) ==
    IF exists = "true" THEN Max(score, boost)
    ELSE IF exists = "false" THEN Min(score, 5)
    ELSE score

\* A Gravatar, GitHub, PGP or HIBP hit lifts the score to at least boost.
sideSignal(score, found, boost) ==
    IF found = "true" THEN Max(score, boost) ELSE score

\* The ten provider lines, in the order of the code.
providerBoosts(score, providers) ==
    sideSignal(sideSignal(sideSignal(sideSignal(
        providerSignal(providerSignal(providerSignal(score,
            providers.microsoftExists, 93),
            providers.googleExists, 94),
            providers.appleExists, 93),
        providers.hasGravatar, 80),
        providers.hasGitHub, 82),
        providers.hasPgpKey, 80),
        providers.hibpBreached, 78)

implicitMxPenalty(score, implicitMx) ==
    IF implicitMx /\ score > 50 THEN score - 15 ELSE score

healthAdjustment(score, domainHealth) ==
    IF ~domainHealth.present THEN score
    ELSE IF domainHealth.hasSPF /\ domainHealth.hasDMARC THEN score + 3
    ELSE IF ~domainHealth.hasSPF /\ ~domainHealth.hasDMARC THEN score - 10
    ELSE score

intelPenalties(score, intel) ==
    score - (IF intel.websiteAlive = "false" THEN 10 ELSE 0)
          - (IF intel.isParked = "true" THEN 15 ELSE 0)
          - (IF intel.blacklisted = "true" THEN 20 ELSE 0)
          - (IF intel.domainAgeDays # <<>> /\ intel.domainAgeDays[1] < 30 THEN 15 ELSE 0)
          - (IF intel.looksHuman = "false" THEN 10 ELSE 0)
          - (IF Len(intel.patternFlags) > 0 THEN 5 ELSE 0)

\* computeConfidence up to its return statement: the score before the clamp.
confidenceScore(smtp, riskFlags, implicitMx, domainHealth, providers, intel) ==
    applyRiskFlags(
        intelPenalties(
            healthAdjustment(
                implicitMxPenalty(
                    providerBoosts(baseScore(smtp, providers), providers),
                    implicitMx),
                domainHealth),
            intel),
        riskFlags)

\* Variant: the score is returned as it stands, without the final clamp.
returnUnclamped(score) == score

\* Math.max(0, Math.min(97, score)).
clamp(score) == Max(0, Min(97, score))

\* Variant: a domain without mail servers is scored like any other.
computeConfidenceScoresNoMx(syntaxOk, mx, smtp, riskFlags, implicitMx, domainHealth, providers, intel) ==
    IF ~syntaxOk THEN 0
    ELSE IF mx = "null" THEN 20
    ELSE clamp(confidenceScore(smtp, riskFlags, implicitMx, domainHealth,
                               providers, intel))

computeConfidence(syntaxOk, mx, smtp, riskFlags, implicitMx, domainHealth, providers, intel) ==
    IF ~syntaxOk THEN 0
    ELSE IF mx = "null" THEN 20
    ELSE IF mx # "true" THEN 5
    ELSE clamp(confidenceScore(smtp, riskFlags, implicitMx, domainHealth,
                               providers, intel))

\* ------------------------------------------- pattern-analysis.ts, provider checks
\* What the regular expressions and shannonEntropy of analyzeLocalPart find in a
\* local part: its length, its digits, its entropy in hundredths of a bit and
\* whether one of BUSINESS_PATTERNS matches.
LocalFacts(local) ==
    CASE local = <<"alice">> ->
             [length |-> 5, digits |-> 0, entropy |-> 232, letters |-> TRUE,
              matchesPattern |-> "firstnamelastname"]
      [] local = <<"admin">> ->
             [length |-> 5, digits |-> 0, entropy |-> 232, letters |-> TRUE,
              matchesPattern |-> "firstnamelastname"]
      [] local = <<"x9">> ->
             [length |-> 2, digits |-> 1, entropy |-> 100, letters |-> FALSE,
              matchesPattern |-> "null"]
      [] OTHER ->
             [length |-> 0, digits |-> 0, entropy |-> 0, letters |-> FALSE,
              matchesPattern |-> "null"]

analyzeLocalPart(local) ==
    LET f == LocalFacts(local)
        autoGenerated == f.entropy > 350 /\ f.length > 10
        short == f.length <= 2 /\ ~f.letters
        numeric == 2 * f.digits > f.length /\ f.length > 5
        flags == (IF autoGenerated THEN <<"Looks auto-generated">> ELSE <<>>)
                 \o (IF short THEN <<"Unusually short local part">> ELSE <<>>)
                 \o (IF numeric THEN <<"Mostly numeric local part">> ELSE <<>>)
        looksHuman == \/ f.matchesPattern # "null"
                      \/ /\ f.entropy < 350
                         /\ f.length >= 3
                         /\ f.length <= 30
                         /\ 5 * f.digits < 2 * f.length
    IN  [looksHuman |-> IF looksHuman THEN "true" ELSE "false", flags |-> flags]

\* host.endsWith(pattern), or host === pattern without its leading dot.
EndsWith(host, suffix) ==
    /\ Len(host) >= Len(suffix)
    /\ SubSeq(host, Len(host) - Len(suffix) + 1, Len(host)) = suffix

MX_PATTERNS ==
    << [provider |-> "google",
        patterns |-> {<<"google", "com">>, <<"googlemail", "com">>,
                      <<"smtp", "google", "com">>, <<"aspmx", "l", "google", "com">>,
                      <<"gmail-smtp-in", "l", "google", "com">>}],
       [provider |-> "microsoft",
        patterns |-> {<<"mail", "protection", "outlook", "com">>,
                      <<"mail", "eo", "outlook", "com">>, <<"pamx1", "hotmail", "com">>,
                      <<"mx", "microsoft">>, <<"olc", "protection", "outlook", "com">>}],
       [provider |-> "apple",
        patterns |-> {<<"mail", "icloud", "com">>, <<"apple", "com">>}],
       [provider |-> "zoho",
        patterns |-> {<<"zoho", "com">>, <<"zoho", "eu">>, <<"zoho", "in">>,
                      <<"zohomail", "com">>}],
       [provider |-> "protonmail",
        patterns |-> {<<"protonmail", "ch">>, <<"proton", "ch">>,
                      <<"mail", "protonmail", "ch">>, <<"mailsec", "protonmail", "ch">>}],
       [provider |-> "fastmail",
        patterns |-> {<<"fastmail", "com">>, <<"messagingengine", "com">>}],
       [provider |-> "yandex",
        patterns |-> {<<"yandex", "net">>, <<"yandex", "ru">>, <<"mx", "yandex", "net">>}],
       [provider |-> "mimecast", patterns |-> {<<"mimecast", "com">>}],
       [provider |-> "barracuda",
        patterns |-> {<<"barracudanetworks", "com">>, <<"ess", "barracuda", "com">>}],
       [provider |-> "rackspace", patterns |-> {<<"emailsrvr", "com">>}] >>

\* The first entry of MX_PATTERNS with a pattern the host ends with.
HostProvider(host) ==
    LET hits == {i \in 1..Len(MX_PATTERNS) :
                    \E pat \in MX_PATTERNS[i].patterns : EndsWith(host, pat)}
    IN  IF hits = {} THEN "null"
        ELSE MX_PATTERNS[CHOOSE i \in hits : \A j \in hits : i <= j].provider

RECURSIVE detectMxProvider(_)
detectMxProvider(mxHosts) ==
    IF mxHosts = <<>> THEN "null"
    ELSE IF HostProvider(Head(mxHosts)) # "null" THEN HostProvider(Head(mxHosts))
    ELSE detectMxProvider(Tail(mxHosts))

MICROSOFT_CONSUMER_DOMAINS ==
    {<<"outlook", "com">>, <<"hotmail", "com">>, <<"hotmail", "co", "uk">>,
     <<"hotmail", "fr">>, <<"hotmail", "de">>, <<"hotmail", "it">>, <<"hotmail", "es">>,
     <<"live", "com">>, <<"live", "co", "uk">>, <<"live", "fr">>, <<"live", "de">>,
     <<"live", "it">>, <<"live", "nl">>, <<"msn", "com">>, <<"outlook", "co", "uk">>,
     <<"outlook", "fr">>, <<"outlook", "de">>, <<"outlook", "it">>, <<"outlook", "es">>,
     <<"outlook", "com", "au">>, <<"outlook", "jp">>}

isMicrosoftDomain(domain) == domain \in MICROSOFT_CONSUMER_DOMAINS

GOOGLE_CONSUMER_DOMAINS == {<<"gmail", "com">>, <<"googlemail", "com">>}

isGoogleDomain(domain, mxHosts) ==
    \/ domain \in GOOGLE_CONSUMER_DOMAINS
    \/ \E i \in 1..Len(mxHosts) :
          \E suffix \in {<<"google", "com">>, <<"googlemail", "com">>} :
              Len(mxHosts[i]) > Len(suffix) /\ EndsWith(mxHosts[i], suffix)

APPLE_DOMAINS == {<<"icloud", "com">>, <<"me", "com">>, <<"mac", "com">>}

isAppleDomain(domain) == domain \in APPLE_DOMAINS

\* ------------------------------------------------------- the verify handler
\* body.emails: absent/not an array, or a list of addresses (named by position).
Bodies == {[hasEmails |-> FALSE, emails |-> <<>>]} \cup
          {[hasEmails |-> TRUE, emails |-> [i \in 1..n |-> i]] :
              n \in 0..(MaxEmailsPerRequest + 1)}

\* A request suspended at `await readBody` / at `await Promise.all`.
AtBody(c) == [pc |-> "body", caller |-> c, emailsToProcess |-> <<>>]
AtWork(c, emails) == [pc |-> "work", caller |-> c, emailsToProcess |-> emails]

\* What a handler step did: which part of the handler ran ("arrive", "body",
\* "respond", "throw"; "other" for another identity's request), the batch length
\* it read (-1: body not read or without emails[]), the addresses it passed on,
\* and the response it sent: status 0 while the request goes on, else the
\* status, createError's reason and the retryAfterMs behind Retry-After.
Outcome(op, n, emails, status, reason, retryAfterMs) ==
    [op |-> op, n |-> n, emails |-> emails, status |-> status, reason |-> reason,
     retryAfterMs |-> retryAfterMs]

NoOutcome == Outcome("none", -1, <<>>, 0, "", -1)

NoWindow == [opened |-> 0 - WindowMs, admitted |-> 0]

\* Bookkeeping of the claims: the fixed window the client's admissions fall in.
Admit(w, t) == IF t >= w.opened + WindowMs
               THEN [opened |-> t, admitted |-> 1]
               ELSE [w EXCEPT !.admitted = @ + 1]

\* Bookkeeping of the claims: addresses handed to the pipeline per UTC day.
Charge(p, t, n) == IF p.day = nextMidnightUTC(t)
                   THEN [p EXCEPT !.count = @ + n]
                   ELSE [day |-> nextMidnightUTC(t), count |-> n]

\* ------------------------------------------- the per-address pipeline (handler)
NoChecks == [microsoft |-> "null", google |-> "null", apple |-> "null",
             gravatar |-> "null", github |-> "null", pgp |-> "null", hibp |-> "null"]
NoHealth == [present |-> FALSE, hasSPF |-> FALSE, hasDMARC |-> FALSE]
NoIntel == [websiteAlive |-> "null", isParked |-> "null", domainAgeDays |-> <<>>,
            blacklisted |-> "null"]

\* The callback's local variables as declared, before anything is looked up.
NoMail == [pc |-> "idle", email |-> <<>>, syntaxOk |-> FALSE, local |-> <<>>,
           domain |-> <<>>, mx |-> "null", mxHosts |-> <<>>, implicitMx |-> FALSE,
           smtp |-> "null", domainHealth |-> NoHealth, providerChecks |-> NoChecks,
           domainIntel |-> NoIntel, riskFlags |-> <<>>, notes |-> <<>>,
           status |-> "", confidence |-> -1]

\* The notes the callback pushes before it looks anything up.
syntaxNotesNone(syntaxOk, domain) == <<>>

syntaxNotes(syntaxOk, domain) ==
    IF ~syntaxOk THEN <<"Invalid syntax">>
    ELSE IF domain = <<>> THEN <<"Missing domain">>
    ELSE <<>>

\* const pattern = syntaxOk && local ? analyzeLocalPart(local) : null
patternOf(m) ==
    IF m.syntaxOk /\ m.local # <<>>
    THEN analyzeLocalPart(m.local)
    ELSE [looksHuman |-> "null", flags |-> <<>>]

\* const riskFlags = syntaxOk && domain ? getRiskFlags(local, domain) : []
riskFlagsOf(m) ==
    IF m.syntaxOk /\ m.domain # <<>> THEN getRiskFlags(m.local, m.domain) ELSE <<>>

\* const providers: ProviderSignals
providersOf(m) ==
    [microsoftExists |-> m.providerChecks.microsoft,
     googleExists |-> m.providerChecks.google,
     appleExists |-> m.providerChecks.apple,
     hasGravatar |-> m.providerChecks.gravatar,
     hasGitHub |-> m.providerChecks.github,
     hasPgpKey |-> m.providerChecks.pgp,
     hibpBreached |-> m.providerChecks.hibp,
     isMajorProvider |-> IF m.domain # <<>> THEN isMajorProvider(m.domain) ELSE FALSE]

\* const intel: IntelSignals, as far as computeConfidence reads it
intelOf(m) ==
    [websiteAlive |-> m.domainIntel.websiteAlive,
     isParked |-> m.domainIntel.isParked,
     domainAgeDays |-> m.domainIntel.domainAgeDays,
     blacklisted |-> m.domainIntel.blacklisted,
     looksHuman |-> patternOf(m).looksHuman,
     patternFlags |-> patternOf(m).flags]

\* The end of the callback: risk flags, computeStatus and computeConfidence.
Finish(m) ==
    [m EXCEPT !.pc = "done",
              !.riskFlags = riskFlagsOf(m),
              !.status = computeStatus(m.syntaxOk, m.domain, m.mx, m.smtp,
                                       riskFlagsOf(m), providersOf(m)),
              !.confidence = computeConfidence(m.syntaxOk, m.mx, m.smtp, riskFlagsOf(m),
                                               m.implicitMx, m.domainHealth,
                                               providersOf(m), intelOf(m))]

\* Addresses a request may carry.
RawEmails ==
    {<<>>,
     <<"alice", "@">>,
     <<" ", "mailto:", "Alice", "@", "example", "com", " ">>,
     <<"alice", "@", "example", "com">>,
     <<"admin", "@", "example", "com">>,
     <<"x9", "@", "example", "com">>,
     <<"alice", "@", "mailinator", "com">>,
     <<"admin", "@", "mailinator", "com">>,
     <<"alice", "@", "outlook", "com">>,
     <<"alice", "@", "gmail", "com">>,
     <<"alice", "@", "icloud", "com">>}

\* MX host lists the resolver may return for a domain, by priority.
MxHostLists(domain) ==
    CASE domain = <<"example", "com">> ->
             {<< <<"mx", "example", "com">> >>,
              << <<"aspmx", "l", "google", "com">> >>,
              << <<"example-com", "mail", "protection", "outlook", "com">> >>,
              << <<"example-com", "mail", "protection", "outlook", "com">>,
                 <<"aspmx", "l", "google", "com">> >>}
      [] domain = <<"mailinator", "com">> -> {<< <<"mail", "mailinator", "com">> >>}
      [] domain = <<"outlook", "com">> ->
             {<< <<"outlook-com", "olc", "protection", "outlook", "com">> >>}
      [] domain = <<"gmail", "com">> -> {<< <<"gmail-smtp-in", "l", "google", "com">> >>}
      [] domain = <<"icloud", "com">> -> {<< <<"mx01", "mail", "icloud", "com">> >>}
      [] OTHER -> {}

\* lookupMx: null (timeout or other DNS error), MX records, the A/AAAA
\* fallback, or neither.
MxAnswers(domain) ==
    {[null |-> TRUE, hasMx |-> FALSE, hosts |-> <<>>, viaImplicitMx |-> FALSE],
     [null |-> FALSE, hasMx |-> FALSE, hosts |-> <<>>, viaImplicitMx |-> FALSE],
     [null |-> FALSE, hasMx |-> TRUE, hosts |-> <<domain>>, viaImplicitMx |-> TRUE]}
    \cup {[null |-> FALSE, hasMx |-> TRUE, hosts |-> h, viaImplicitMx |-> FALSE] :
             h \in MxHostLists(domain)}

HealthAnswers == {[present |-> TRUE, hasSPF |-> a, hasDMARC |-> b] : a, b \in BOOLEAN}

TriState == {"true", "false", "null"}

SmtpVerdicts == {"accepted", "rejected", "catch-all", "greylisted", "error"}

\* Results of checkMicrosoftAccount; NoMsResult is the null of a probe not run.
MicrosoftAnswers ==
    {[null |-> FALSE, exists |-> "true", throttled |-> FALSE],
     [null |-> FALSE, exists |-> "false", throttled |-> FALSE],
     [null |-> FALSE, exists |-> "null", throttled |-> FALSE],
     [null |-> FALSE, exists |-> "null", throttled |-> TRUE]}
NoMsResult == [null |-> TRUE, exists |-> "null", throttled |-> FALSE]

\* Answers of the side-channel probes (Gravatar, GitHub, PGP, HIBP).
SideAnswers ==
    {[gravatar |-> "false", github |-> "false", pgp |-> "false", hibp |-> "false"],
     [gravatar |-> "true", github |-> "false", pgp |-> "false", hibp |-> "false"],
     [gravatar |-> "false", github |-> "true", pgp |-> "false", hibp |-> "false"],
     [gravatar |-> "false", github |-> "false", pgp |-> "true", hibp |-> "false"],
     [gravatar |-> "false", github |-> "false", pgp |-> "false", hibp |-> "true"],
     [gravatar |-> "true", github |-> "true", pgp |-> "true", hibp |-> "true"],
     [gravatar |-> "null", github |-> "null", pgp |-> "null", hibp |-> "null"]}

\* Answers of getDomainIntel.
IntelAnswers ==
    {[websiteAlive |-> "true", isParked |-> "false", domainAgeDays |-> <<4000>>,
      blacklisted |-> "false"],
     [websiteAlive |-> "false", isParked |-> "false", domainAgeDays |-> <<4000>>,
      blacklisted |-> "false"],
     [websiteAlive |-> "true", isParked |-> "true", domainAgeDays |-> <<4000>>,
      blacklisted |-> "false"],
     [websiteAlive |-> "true", isParked |-> "false", domainAgeDays |-> <<7>>,
      blacklisted |-> "false"],
     [websiteAlive |-> "true", isParked |-> "false", domainAgeDays |-> <<4000>>,
      blacklisted |-> "true"],
     [websiteAlive |-> "null", isParked |-> "false", domainAgeDays |-> <<>>,
      blacklisted |-> "null"],
     [websiteAlive |-> "false", isParked |-> "true", domainAgeDays |-> <<7>>,
      blacklisted |-> "true"]}

\* The four per-request Maps from a domain to its pending promise, all empty.
\* The arguments of computeStatus and computeConfidence and what they return,
\* before a call.
NoEvidence ==
    [pc |-> "idle", syntaxOk |-> FALSE, domain |-> <<>>, mx |-> "null", smtp |-> "null",
     riskFlags |-> <<>>, implicitMx |-> FALSE, domainHealth |-> NoHealth,
     providers |-> providersOf(NoMail), intel |-> intelOf(NoMail),
     status |-> "", confidence |-> -1]

\* server-intel: no host on record, no verdict passed through yet.
\* last is the handler's smtpHost, the verdict verifySmtp returned, the smtp
\* it reports, and the notes and the status of it.
NoServerIntel ==
    [serverMap |-> <<>>,
     last |-> [host |-> "", verdict |-> "none", smtp |-> "none", notes |-> <<>>,
               status |-> ""]]

\* bounce-db: no record, no bucket. reported is the history of the reports the
\* endpoint accepted, as pairs of address and reporter; evicted those of them
\* whose record the cleanup deleted since; last the latest request and its outcome.
NoBounce ==
    [bounceMap |-> <<>>, reportBuckets |-> <<>>, reported |-> {}, evicted |-> {},
     last |-> [op |-> "none", statusCode |-> 0, notes |-> <<>>]]

\* smtpSession's locals as the Promise executor sets them up; a code that is
\* null is the empty sequence. realUnknown is isUserUnknownResponse(realLine);
\* sent is what the session wrote to the socket so far, and realTextUnknown
\* whether any line of the reply to RCPT(real), continuation lines included,
\* matched USER_UNKNOWN_PATTERNS. The fields from records on belong to
\* verifySmtp: the MX records as the resolver gave them and the host list
\* made of them (empty before the call), the number of sessions opened so
\* far, the position of the host in turn,
\* whether this is the retry after a greylisted session, that session's
\* verdict, and what verifySmtp returned. late: an event reached the session's
\* handlers after it had resolved.
NewSession ==
    [phase |-> "banner", realCode |-> <<>>, realUnknown |-> FALSE, fakeCode |-> <<>>,
     serverSupportsStarttls |-> FALSE, upgrading |-> FALSE,
     verdict |-> "none", code |-> <<>>,
     sent |-> <<>>, realTextUnknown |-> FALSE,
     records |-> <<>>, mxHosts |-> <<>>, sessions |-> 0,
     host |-> 1, retrying |-> FALSE, first |-> "none", result |-> "none",
     late |-> FALSE]

NoMaps == [mx |-> <<>>, health |-> <<>>, intel |-> <<>>, dkim |-> <<>>]

\* No response built yet.
NoResults == [sent |-> FALSE, list |-> <<>>]

Init ==
    /\ now = StartNow
    /\ requestBuckets = <<>>
    /\ dailyBuckets = <<>>
    /\ concurrency = <<>>
    /\ globalDailyEmails = 0
    /\ globalResetsAt = nextMidnightUTC(StartNow)
    /\ client \in Callers
    /\ inflight = EmptyBag
    /\ last = NoOutcome
    /\ win = NoWindow
    /\ processed = [day |-> nextMidnightUTC(StartNow), count |-> 0]
    /\ mail = NoMail
    /\ tasks = <<>>
    /\ ops = <<>>
    /\ domainMaps = NoMaps
    /\ limiter = [activeCount |-> 0, queue |-> <<>>]
    /\ calls = <<>>
    /\ response = NoResults
    /\ bodyEmails = <<>>
    /\ session = NewSession
    /\ dns = [now |-> 0, cache |-> <<>>, lookups |-> <<>>]
    /\ probe = [now |-> StartNow, lastCallTs |-> 0, callers |-> <<>>]
    /\ evidence = NoEvidence
    /\ serverIntel = NoServerIntel
    /\ bounce = NoBounce

\* Handler entry up to `await readBody`: 1. request rate, 2. concurrency guard.
Arrive(c) ==
    LET key == rateLimitKey(c)
        rateCheck == checkRequestRate(requestBuckets, dailyBuckets, key, reqPerMin(c), now)
        concCheck == acquireConcurrency(concurrency, key, maxConc(c))
    IN  /\ requestBuckets' = rateCheck.requestBuckets
        /\ dailyBuckets' = rateCheck.dailyBuckets
        /\ IF ~rateCheck.allowed
           THEN /\ rateCheck.dailyBuckets[key].violationCount <= MaxViolations
                /\ last' = Outcome("arrive", -1, <<>>, 429, "rate", rateCheck.retryAfterMs)
                /\ UNCHANGED <<concurrency, win, inflight>>
           ELSE /\ concurrency' = concCheck.concurrency
                /\ win' = Admit(win, now)
                /\ IF concCheck.allowed
                   THEN /\ BagCardinality(inflight) < MaxReqs
                        /\ inflight' = inflight (+) SetToBag({AtBody(c)})
                        /\ last' = Outcome("arrive", -1, <<>>, 0, "", -1)
                   ELSE /\ last' = Outcome("arrive", -1, <<>>, 429, "concurrency", -1)
                        /\ UNCHANGED inflight
        /\ UNCHANGED <<now, globalDailyEmails, globalResetsAt, client, processed, mail, ioVars>>

\* Variant: no batch is too large.
anyLength(n) == FALSE

\* body.emails.length > config.maxEmailsPerRequest
tooMany(n) == n > MaxEmailsPerRequest

\* After readBody: body and batch-size validation, 3. daily email cap,
\* 4. global daily ceiling; every throw passes through finally { releaseConcurrency }.
ReadBody(q, body) ==
    /\ BagIn(q, inflight)
    /\ q.pc = "body"
    /\ LET c == q.caller
           key == rateLimitKey(c)
           n == Len(body.emails)
           dailyCheck == checkDailyEmailCap(dailyBuckets, key, n, dailyCapOf(c), now)
           emailsToProcess == SubSeq(body.emails, 1, dailyCheck.allowedCount)
           globalCheck == checkGlobalCap(
                              [emails |-> globalDailyEmails, resetsAt |-> globalResetsAt],
                              Len(emailsToProcess), RateLimitGlobalDailyCap, now)
           left == inflight (-) SetToBag({q})
       IN  IF ~body.hasEmails
           THEN /\ last' = Outcome("body", -1, <<>>, 400, "emails[] required", -1)
                /\ inflight' = left
                /\ concurrency' = releaseConcurrency(concurrency, key)
                /\ UNCHANGED <<dailyBuckets, globalDailyEmails, globalResetsAt, processed>>
           ELSE IF tooMany(n)
           THEN /\ last' = Outcome("body", n, <<>>, 400, "batch", -1)
                /\ inflight' = left
                /\ concurrency' = releaseConcurrency(concurrency, key)
                /\ UNCHANGED <<dailyBuckets, globalDailyEmails, globalResetsAt, processed>>
           ELSE IF ~dailyCheck.allowed
           THEN /\ dailyBuckets' = dailyCheck.dailyBuckets
                /\ last' = Outcome("body", n, <<>>, 429, "daily", dailyCheck.retryAfterMs)
                /\ inflight' = left
                /\ concurrency' = releaseConcurrency(concurrency, key)
                /\ UNCHANGED <<globalDailyEmails, globalResetsAt, processed>>
           ELSE /\ dailyBuckets' = dailyCheck.dailyBuckets
                /\ globalDailyEmails' = globalCheck.global.emails
                /\ globalResetsAt' = globalCheck.global.resetsAt
                /\ IF ~globalCheck.allowed
                   THEN /\ last' = Outcome("body", n, emailsToProcess, 503, "global", -1)
                        /\ inflight' = left
                        /\ concurrency' = releaseConcurrency(concurrency, key)
                        /\ UNCHANGED processed
                   ELSE /\ last' = Outcome("body", n, emailsToProcess, 0, "", -1)
                        /\ inflight' = left (+) SetToBag({AtWork(c, emailsToProcess)})
                        /\ processed' = Charge(processed, now, Len(emailsToProcess))
                        /\ UNCHANGED concurrency
    /\ UNCHANGED <<now, requestBuckets, client, win, mail, ioVars>>

\* Promise.all resolved: one result per processed address, the trailing
\* recordEmailsUsed / recordGlobalEmails, the response, finally.
Respond(q) ==
    /\ BagIn(q, inflight)
    /\ q.pc = "work"
    /\ LET key == rateLimitKey(q.caller)
           results == Len(q.emailsToProcess)
           g == recordGlobalEmails(
                    [emails |-> globalDailyEmails, resetsAt |-> globalResetsAt], results)
       IN  /\ dailyBuckets' = recordEmailsUsed(dailyBuckets, key, results)
           /\ globalDailyEmails' = g.emails
           /\ globalResetsAt' = g.resetsAt
           /\ concurrency' = releaseConcurrency(concurrency, key)
           /\ inflight' = inflight (-) SetToBag({q})
           /\ last' = Outcome("respond", -1, q.emailsToProcess, 200, "", -1)
    /\ UNCHANGED <<now, requestBuckets, client, win, processed, mail, ioVars>>

\* Any exception inside the try block while the addresses are being processed.
Throw(q) ==
    /\ BagIn(q, inflight)
    /\ q.pc = "work"
    /\ concurrency' = releaseConcurrency(concurrency, rateLimitKey(q.caller))
    /\ inflight' = inflight (-) SetToBag({q})
    /\ last' = Outcome("throw", -1, <<>>, 500, "exception", -1)
    /\ UNCHANGED <<now, requestBuckets, dailyBuckets, globalDailyEmails,
                   globalResetsAt, client, win, processed, mail, ioVars>>

\* A request of any other identity reaches the global ceiling with n addresses
\* (its own gates passed: its buckets are under other keys of the Maps).
OtherIdentity(n) ==
    LET globalCheck == checkGlobalCap(
                           [emails |-> globalDailyEmails, resetsAt |-> globalResetsAt],
                           n, RateLimitGlobalDailyCap, now)
    IN  /\ globalDailyEmails' = globalCheck.global.emails
        /\ globalResetsAt' = globalCheck.global.resetsAt
        /\ last' = IF globalCheck.allowed
                   THEN Outcome("other", n, [i \in 1..n |-> i], 0, "", -1)
                   ELSE Outcome("other", n, [i \in 1..n |-> i], 503, "global", -1)
        /\ UNCHANGED <<now, requestBuckets, dailyBuckets, concurrency, client, inflight,
                       win, processed, mail, ioVars>>

\* Bookkeeping of the claims at a clock step: a window or a day that ended is closed.
Elapse(t) ==
    /\ now' = t
    /\ win' = IF t >= win.opened + WindowMs THEN NoWindow ELSE win
    /\ processed' = IF processed.day = nextMidnightUTC(t)
                    THEN processed
                    ELSE [day |-> nextMidnightUTC(t), count |-> 0]
    /\ last' = NoOutcome

\* Time passes, no timer is due.
Tick ==
    /\ now + TickMs <= MaxNow
    /\ (now + TickMs - StartNow) % SweepIntervalMs # 0
    /\ Elapse(now + TickMs)
    /\ UNCHANGED <<requestBuckets, dailyBuckets, concurrency, globalDailyEmails,
                   globalResetsAt, client, inflight, mail, ioVars>>

\* Time passes and the setInterval(..., 60_000) cleanup of expired buckets runs.
Sweep ==
    /\ now + TickMs <= MaxNow
    /\ (now + TickMs - StartNow) % SweepIntervalMs = 0
    /\ Elapse(now + TickMs)
    /\ requestBuckets' = MapDel(requestBuckets,
                            {k \in DOMAIN requestBuckets : requestBuckets[k].expiresAt <= now'})
    /\ dailyBuckets' = MapDel(dailyBuckets,
                          {k \in DOMAIN dailyBuckets : dailyBuckets[k].resetsAt <= now'})
    /\ concurrency' = MapDel(concurrency,
                         {k \in DOMAIN concurrency : concurrency[k].active = 0})
    /\ UNCHANGED <<globalDailyEmails, globalResetsAt, client, inflight, mail, ioVars>>

Next ==
    \/ Arrive(client)
    \/ \E q \in BagToSet(inflight), b \in Bodies : ReadBody(q, b)
    \/ \E q \in BagToSet(inflight) : Respond(q)
    \/ \E q \in BagToSet(inflight) : Throw(q)
    \/ \E n \in 0..MaxEmailsPerRequest : OtherIdentity(n)
    \/ Tick
    \/ Sweep

Spec == Init /\ [][Next]_vars

\* ---------------------------------------------- per-address pipeline steps
\* The callback of emailsToProcess.map up to its first await: normalise, check
\* the syntax, parse. A bad address skips every lookup and ends here.
Start(raw) ==
    /\ mail.pc = "idle"
    /\ LET email == normalizeEmail(raw)
           syntaxOk == isValidSyntax(email)
           parsed == parseEmail(email)
           m == [NoMail EXCEPT !.email = email, !.syntaxOk = syntaxOk,
                               !.local = parsed.local, !.domain = parsed.domain,
                               !.notes = syntaxNotes(syntaxOk, parsed.domain)]
       IN  mail' = IF ~syntaxOk \/ m.domain = <<>>
                   THEN Finish(m)
                   ELSE [m EXCEPT !.pc = "dns"]
    /\ UNCHANGED <<gateVars, ioVars>>

\* getMx and getHealth resolved.
Dns(mxResult, health) ==
    /\ mail.pc = "dns"
    /\ LET m == IF mxResult.null
                THEN [mail EXCEPT !.domainHealth = health, !.mx = "null"]
                ELSE [mail EXCEPT !.domainHealth = health,
                                  !.mx = IF mxResult.hasMx THEN "true" ELSE "false",
                                  !.mxHosts = mxResult.hosts,
                                  !.implicitMx = mxResult.viaImplicitMx]
       IN  mail' = [m EXCEPT !.pc = IF m.mx = "true" /\ Len(m.mxHosts) > 0
                                    THEN "smtp" ELSE "probes"]
    /\ UNCHANGED <<gateVars, ioVars>>

\* verifySmtp resolved; an accepted verdict of a host the server-behaviour
\* cache suspects of accepting everything becomes catch-all.
Smtp(verdict, suspectedCatchAll) ==
    /\ mail.pc = "smtp"
    /\ mail' = [mail EXCEPT !.pc = "probes",
                            !.smtp = IF verdict = "accepted" /\ suspectedCatchAll
                                     THEN "catch-all" ELSE verdict]
    /\ UNCHANGED <<gateVars, ioVars>>

\* Provider gating: which probes run for the address, given its SMTP verdict.
smtpInconclusive(m) == m.smtp \in {"error", "null"}
isMsHosted(m) ==
    isMicrosoftDomain(m.domain) \/ detectMxProvider(m.mxHosts) = "microsoft"
isGoogleHosted(m) ==
    isGoogleDomain(m.domain, m.mxHosts) \/ detectMxProvider(m.mxHosts) = "google"
isAppleHosted(m) ==
    isAppleDomain(m.domain) \/ detectMxProvider(m.mxHosts) = "apple"
runMicrosoft(m) == isMsHosted(m) /\ (smtpInconclusive(m) \/ m.smtp = "rejected")
runGoogle(m) == isGoogleHosted(m) /\ (smtpInconclusive(m) \/ m.smtp = "rejected")
runApple(m) == isAppleHosted(m) /\ (smtpInconclusive(m) \/ m.smtp = "rejected")
\* Variant: Gravatar is asked whatever the SMTP verdict.
runGravatarAlways(m) == TRUE
runGravatar(m) == smtpInconclusive(m)
\* Variant: GitHub is searched whatever the number of addresses.
runGitHubAnySize(m, isSingleMode) == smtpInconclusive(m)
runGitHub(m, isSingleMode) == isSingleMode /\ smtpInconclusive(m)
runPgp(m) == smtpInconclusive(m)
runHIBP(m, hibpKey) == smtpInconclusive(m) /\ hibpKey

\* What Promise.all yields for a probe: its answer if it runs, else
\* Promise.resolve(null).
Ran(run, answers, none) == IF run THEN answers ELSE {none}

\* The probes resolved together; their results go into providerChecks.
Probes(msResult, googleResult, appleResult, gravatarResult, githubResult, pgpResult, hibpResult) ==
    /\ mail.pc = "probes"
    /\ LET checks == [microsoft |-> IF ~msResult.null /\ ~msResult.throttled
                                    THEN msResult.exists ELSE "null",
                      google |-> googleResult,
                      apple |-> appleResult,
                      gravatar |-> gravatarResult,
                      github |-> githubResult,
                      pgp |-> pgpResult,
                      hibp |-> hibpResult]
           m == [mail EXCEPT !.providerChecks = checks]
       IN  mail' = IF m.syntaxOk /\ m.domain # <<>> /\ m.mx = "true"
                   THEN [m EXCEPT !.pc = "intel"]
                   ELSE Finish(m)
    /\ UNCHANGED <<gateVars, ioVars>>

\* getIntel (and getDkim) resolved; the result is put together.
Intel(result) ==
    /\ mail.pc = "intel"
    /\ mail' = Finish([mail EXCEPT !.domainIntel = result])
    /\ UNCHANGED <<gateVars, ioVars>>

EmailNext ==
    \/ \E raw \in RawEmails : Start(raw)
    \/ \E mxResult \in MxAnswers(mail.domain), health \in HealthAnswers :
          Dns(mxResult, health)
    \/ \E verdict \in SmtpVerdicts, suspectedCatchAll \in BOOLEAN :
          Smtp(verdict, suspectedCatchAll)
    \/ \E isSingleMode \in BOOLEAN, hibpKey \in BOOLEAN :
          \E msResult \in Ran(runMicrosoft(mail), MicrosoftAnswers, NoMsResult),
             googleResult \in Ran(runGoogle(mail), TriState, "null"),
             appleResult \in Ran(runApple(mail), TriState, "null"),
             side \in Ran(smtpInconclusive(mail), SideAnswers, NoChecks) :
             Probes(msResult, googleResult, appleResult,
                    IF runGravatar(mail) THEN side.gravatar ELSE "null",
                    IF runGitHub(mail, isSingleMode) THEN side.github ELSE "null",
                    IF runPgp(mail) THEN side.pgp ELSE "null",
                    IF runHIBP(mail, hibpKey) THEN side.hibp ELSE "null")
    \/ \E result \in IntelAnswers : Intel(result)

\* The pipeline runs inside an admitted request; whose request it is has no
\* part in it.
EmailInit == Init /\ client.agent = "none"

EmailSpec == EmailInit /\ [][EmailNext]_vars

\* ------------------------------------------------------------- fusion claims
\* The result of the address is complete.
Done == mail.pc = "done"

\* A Microsoft, Google or Apple probe said the account does not exist.
ProviderSaysFalse ==
    "false" \in {mail.providerChecks.microsoft, mail.providerChecks.google,
                 mail.providerChecks.apple}

\* The score computeConfidence arrives at before it clamps.
RawScore ==
    confidenceScore(mail.smtp, mail.riskFlags, mail.implicitMx, mail.domainHealth,
                    providersOf(mail), intelOf(mail))

\* C1 as stated: every result with status Invalid has confidence <= 5, and
\* exactly 0 when the syntax is bad, whatever the SMTP verdict, the probe
\* results, SPF/DMARC and the domain-intel signals are.
C1_InvalidLowConfidence ==
    (Done /\ mail.status = "Invalid") =>
        /\ mail.confidence <= 5
        /\ ~mail.syntaxOk => mail.confidence = 0

\* C2 as stated: if any of the Microsoft, Google or Apple results is false the
\* status is Invalid, regardless of all other signals, the MX state included.
C2_ProviderFalseInvalid ==
    (Done /\ ProviderSaysFalse) => mail.status = "Invalid"

\* C2 (amended): if any of the Microsoft, Google or Apple results is false and
\* the MX lookup did not fail (MX is present or absent, not unknown), the status
\* is Invalid regardless of the SMTP verdict, the risk flags and any other
\* provider result being true.
C2_ProviderFalseInvalidKnownMx ==
    (Done /\ ProviderSaysFalse /\ mail.mx # "null") => mail.status = "Invalid"

\* C2 case: one provider says false while another says true, MX present.
C2_Witness ==
    /\ Done
    /\ mail.mx = "true"
    /\ mail.providerChecks.microsoft = "false"
    /\ mail.providerChecks.google = "true"
    /\ mail.providerChecks.gravatar = "true"
    /\ mail.status = "Invalid"

\* C3: for every combination of evidence (syntax, MX true/false/unknown, SMTP
\* verdict or none, risk flags, implicit MX, SPF/DMARC, provider results,
\* domain-intel and pattern signals) computeConfidence returns a value in 0..97.
C3_ConfidenceRange ==
    Done => (mail.confidence >= 0 /\ mail.confidence <= 97)

\* C3 case: the penalties drive the score below zero and the clamp returns 0.
C3_Witness ==
    /\ Done
    /\ mail.syntaxOk
    /\ mail.mx = "true"
    /\ RawScore < 0
    /\ mail.confidence = 0

\* ------------------------------------------------- what a caller observes
ClientKey == rateLimitKey(client)

\* active of the client's tracker (getConcurrency creates it at 0).
Active(c) == IF ClientKey \in DOMAIN c THEN c[ClientKey].active ELSE 0

\* emailCount / violationCount a call at time t finds after getDailyBucket.
EmailCountAt(db, t) ==
    IF ClientKey \in DOMAIN db /\ db[ClientKey].resetsAt > t
    THEN db[ClientKey].emailCount ELSE 0
ViolationsAt(db, t) ==
    IF ClientKey \in DOMAIN db /\ db[ClientKey].resetsAt > t
    THEN db[ClientKey].violationCount ELSE 0

\* globalDailyEmails a check at time t starts from.
GlobalAt(g, resetsAt, t) == IF t >= resetsAt THEN 0 ELSE g

\* The request bucket is live: checkRequestRate at time t counts against it.
WindowLive(rb, t) == ClientKey \in DOMAIN rb /\ rb[ClientKey].expiresAt > t

\* Budgets a caller arriving at time t would find.
RpmBudget(rb, t) == IF WindowLive(rb, t)
                    THEN Max(0, reqPerMin(client) - rb[ClientKey].count)
                    ELSE reqPerMin(client)
DailyBudget(db, t) == Max(0, dailyCapOf(client) - EmailCountAt(db, t))
GlobalBudget(g, resetsAt, t) == RateLimitGlobalDailyCap - GlobalAt(g, resetsAt, t)

\* The first k addresses of a batch of n.
FirstOf(n, k) == [i \in 1..Min(n, k) |-> i]

\* ------------------------------------------------------------ rate-gate claims

\* C4 (bookkeeping): neither the emailCount charged to the client nor the number
\* of its addresses handed to the pipeline in one UTC day exceeds its dailyCap.
C4_WithinCap ==
    /\ EmailCountAt(dailyBuckets, now) <= dailyCapOf(client)
    /\ processed.count <= dailyCapOf(client)

\* C4 (one evaluation of the daily gate on a batch of n addresses).
C4_DailyStep ==
    (last'.op = "body" /\ last'.n \in 0..MaxEmailsPerRequest) =>
        LET n == last'.n
            before == EmailCountAt(dailyBuckets, now)
            remaining == Max(0, dailyCapOf(client) - before)
            after == EmailCountAt(dailyBuckets', now')
        IN  IF remaining = 0
            THEN /\ last'.status = 429
                 /\ last'.reason = "daily"
                 /\ last'.retryAfterMs = nextMidnightUTC(now) - now
                 /\ after = before
                 /\ processed' = processed
            ELSE /\ last'.reason # "daily"
                 /\ after = before + Min(n, remaining)
                 /\ last'.emails = FirstOf(n, remaining)
                 /\ last'.status = 0 =>
                        /\ AtWork(client, FirstOf(n, remaining)) \in BagToSet(inflight')
                        /\ processed'.count = processed.count + Min(n, remaining)

\* C4: checkDailyEmailCap reserves atomically. With remaining =
\* max(0, dailyCap - emailCount): when remaining = 0 the request is refused with
\* retry-after = the time to the next UTC midnight and emailCount unchanged;
\* otherwise emailCount grows by exactly min(n, remaining) and exactly the first
\* min(n, remaining) addresses of the batch go on to be processed. So the
\* addresses charged and processed per identity per UTC day never exceed dailyCap.
C4_DailyCapReserves == [](C4_WithinCap) /\ [][C4_DailyStep]_vars

\* C4 case: a batch was cut down to the remaining budget and goes on.
C4_Witness ==
    /\ last.op = "body"
    /\ last.status = 0
    /\ Len(last.emails) > 0
    /\ last.n > Len(last.emails)

\* C5 (state): active counts the admitted requests that have not exited yet and
\* stays within 0..maxConcurrent.
C5_ActiveIsInFlight ==
    /\ Active(concurrency) = BagCardinality(inflight)
    /\ Active(concurrency) >= 0
    /\ Active(concurrency) <= maxConc(client)

\* C5 (step): an admission takes one slot, every exit of an admitted request
\* (200, 400, 429 daily, 503, exception) gives back one, a refusal at the entry
\* gives back none.
C5_Step ==
    /\ (last'.op = "arrive" /\ last'.status = 0) =>
           Active(concurrency') = Active(concurrency) + 1
    /\ (last'.op = "arrive" /\ last'.status # 0) =>
           Active(concurrency') = Active(concurrency)
    /\ (last'.op \in {"body", "respond", "throw"} /\ last'.status # 0) =>
           Active(concurrency') = Active(concurrency) - 1
    /\ (last'.op = "body" /\ last'.status = 0) =>
           Active(concurrency') = Active(concurrency)

\* C5: for every key, active equals the number of requests of that key admitted
\* by acquireConcurrency that have not yet left the handler, 0 <= active <=
\* maxConcurrent, every admitted request releases its slot exactly once on every
\* exit path, and a request refused by acquireConcurrency never releases.
C5_ConcurrencySlots == [](C5_ActiveIsInFlight) /\ [][C5_Step]_vars

\* C5 case: all slots are held by requests in flight and one more is refused.
C5_Witness ==
    /\ last.reason = "concurrency"
    /\ Active(concurrency) = maxConc(client)
    /\ BagCardinality(inflight) = maxConc(client)

\* C6 as stated: when checkRequestRate refuses, the identity's violation counter
\* goes up by one and the retry-after is min(60 s * 2^(violations-1), 3600 s).
C6_BackoffRetryAfter ==
    [][last'.reason = "rate" =>
          LET violations == ViolationsAt(dailyBuckets', now')
          IN  /\ violations = ViolationsAt(dailyBuckets, now) + 1
              /\ last'.retryAfterMs = Min(WindowMs * Pow2(violations - 1), BackoffCapMs)]_vars

\* C7 (state): the admissions counted in the client's current fixed window.
C7_WindowCount == win.admitted <= reqPerMin(client)

\* C7 (step): a refusal leaves the request bucket as it is, and the bucket's
\* window is replaced only once it has expired.
C7_Step ==
    /\ last'.reason = "rate" => requestBuckets' = requestBuckets
    /\ (WindowLive(requestBuckets, now) /\ ClientKey \in DOMAIN requestBuckets'
          /\ last'.op = "arrive") =>
           requestBuckets'[ClientKey].expiresAt = requestBuckets[ClientKey].expiresAt

\* C7: per identity and fixed 60 s window at most maxPerMinute (>= 1) requests
\* are admitted by checkRequestRate; refused requests neither extend the window
\* nor consume slots; a new window starts only once the old one has expired.
C7_FixedWindow == [](C7_WindowCount) /\ [][C7_Step]_vars

\* C7 case: the window is full and a further request was refused.
C7_Witness ==
    /\ last.reason = "rate"
    /\ win.admitted = reqPerMin(client)
    /\ WindowLive(requestBuckets, now)

\* C8 (step): one evaluation of the global ceiling for n addresses.
C8_GlobalStep ==
    LET checked == \/ last'.op = "other"
                   \/ last'.op = "body" /\ last'.reason \in {"", "global"}
                                        /\ last'.n \in 0..MaxEmailsPerRequest
        n == Len(last'.emails)
        start == GlobalAt(globalDailyEmails, globalResetsAt, now)
    IN  IF checked
        THEN /\ IF start + n > RateLimitGlobalDailyCap
                THEN last'.status = 503 /\ globalDailyEmails' = start
                ELSE last'.status = 0 /\ globalDailyEmails' = start + n
             /\ globalResetsAt' = nextMidnightUTC(now)
        ELSE globalDailyEmails' = globalDailyEmails /\ globalResetsAt' = globalResetsAt

\* C8: checkGlobalCap refuses (503) whenever globalDailyEmails + n > globalCap
\* and leaves the counter unchanged, otherwise adds exactly n; the counter never
\* exceeds globalCap between resets and restarts from 0 at the first check at or
\* after the next UTC midnight.
C8_GlobalCeiling ==
    [](globalDailyEmails >= 0 /\ globalDailyEmails <= RateLimitGlobalDailyCap)
        /\ [][C8_GlobalStep]_vars

\* C8 case: a client batch that passed its daily gate is refused by the ceiling.
C8_Witness ==
    /\ last.op = "body"
    /\ last.status = 503
    /\ Len(last.emails) > 0
    /\ globalDailyEmails + Len(last.emails) > RateLimitGlobalDailyCap

\* C9 as stated (order RPM, batch size, daily cap, global ceiling, concurrency):
\* with the semaphore as the last layer, a request holding a concurrency slot
\* has already passed the batch-size, daily-cap and global-ceiling layers.
C9_ConcurrencyLast ==
    \A q \in BagToSet(inflight) : q.pc = "work"

\* C9 (step): the refusal reason is the first failing layer in the order RPM,
\* concurrency, body and batch size, daily cap, global ceiling, and the layers
\* after it are left as they were.
C9_Step ==
    LET rateFull == /\ WindowLive(requestBuckets, now)
                    /\ requestBuckets[ClientKey].count >= reqPerMin(client)
        concFull == Active(concurrency) >= maxConc(client)
        n == last'.n
        remaining == DailyBudget(dailyBuckets, now)
        globalFull == GlobalAt(globalDailyEmails, globalResetsAt, now) + Min(n, remaining)
                          > RateLimitGlobalDailyCap
        globalSame == /\ globalDailyEmails' = globalDailyEmails
                      /\ globalResetsAt' = globalResetsAt
    IN  /\ last'.op = "arrive" =>
              /\ last'.reason = (IF rateFull THEN "rate"
                                 ELSE IF concFull THEN "concurrency" ELSE "")
              /\ rateFull => concurrency' = concurrency
              /\ ~rateFull => dailyBuckets' = dailyBuckets
              /\ EmailCountAt(dailyBuckets', now') = EmailCountAt(dailyBuckets, now)
              /\ globalSame
              /\ last'.status = 0 => AtBody(client) \in BagToSet(inflight')
        /\ last'.op = "body" =>
              /\ last'.reason = (IF n = -1 THEN "emails[] required"
                                 ELSE IF n > MaxEmailsPerRequest THEN "batch"
                                 ELSE IF remaining = 0 THEN "daily"
                                 ELSE IF globalFull THEN "global" ELSE "")
              /\ last'.reason \in {"emails[] required", "batch"} =>
                     dailyBuckets' = dailyBuckets
              /\ last'.reason \in {"emails[] required", "batch", "daily"} => globalSame
              /\ last'.reason # "" => Active(concurrency') = Active(concurrency) - 1
              /\ requestBuckets' = requestBuckets

\* C9 (amended): the admission layers are evaluated in the order per-identity
\* RPM, per-identity concurrency semaphore, body and batch-size cap, per-identity
\* daily email cap, global daily ceiling; the first failing layer determines the
\* refusal and no later layer is evaluated or has its counter changed by that
\* request, the slot taken at the semaphore being released on a later refusal.
C9_LayerOrder == [][C9_Step]_vars

\* C9 case: a request that took a slot is refused by the batch-size cap behind it.
C9_Witness ==
    /\ last.op = "body"
    /\ last.reason = "batch"
    /\ Active(concurrency) < maxConc(client)

\* A clock step inside the live request window and inside the UTC day.
NoExpiry == WindowLive(requestBuckets, now) => requestBuckets[ClientKey].expiresAt > now'
NoMidnight == nextMidnightUTC(now') = nextMidnightUTC(now)

\* A request passed a gate in this step.
Succeeded == last'.op \in {"arrive", "body"} /\ last'.status = 0

\* C10 as stated: within one window (no bucket expiry, no midnight reset in
\* between) a successful request never decreases the budget a concurrent caller
\* finds at any gate.
C10_NeverDecreases ==
    [][(Succeeded /\ NoExpiry /\ NoMidnight) =>
          /\ RpmBudget(requestBuckets', now') >= RpmBudget(requestBuckets, now)
          /\ DailyBudget(dailyBuckets', now') >= DailyBudget(dailyBuckets, now)
          /\ GlobalBudget(globalDailyEmails', globalResetsAt', now')
                 >= GlobalBudget(globalDailyEmails, globalResetsAt, now)]_vars

\* C10 (step): a gate evaluation or a clock step inside a window only lowers the
\* budgets, and a gate that lets a request through lowers them by what it took.
C10_Step ==
    /\ (last'.op # "respond" /\ NoExpiry) =>
          RpmBudget(requestBuckets', now') <= RpmBudget(requestBuckets, now)
    /\ (last'.op # "respond" /\ NoMidnight) =>
          /\ DailyBudget(dailyBuckets', now') <= DailyBudget(dailyBuckets, now)
          /\ GlobalBudget(globalDailyEmails', globalResetsAt', now')
                 <= GlobalBudget(globalDailyEmails, globalResetsAt, now)
    /\ (last'.op = "arrive" /\ last'.status = 0) =>
          RpmBudget(requestBuckets', now') = RpmBudget(requestBuckets, now) - 1
    /\ (last'.op = "body" /\ last'.status = 0) =>
          /\ DailyBudget(dailyBuckets', now')
                 = DailyBudget(dailyBuckets, now) - Len(last'.emails)
          /\ GlobalBudget(globalDailyEmails', globalResetsAt', now')
                 = GlobalBudget(globalDailyEmails, globalResetsAt, now) - Len(last'.emails)

\* C10 (amended): the rate gates are monotonic: within one window (no bucket
\* expiry, no midnight reset in between) no gate evaluation ever increases the
\* budget a concurrent caller finds at any gate; a request that passes a gate
\* decreases it by exactly what it consumed (one request at the RPM gate, the
\* addresses it reserved at the daily and global gates).
C10_NeverIncreases == [][C10_Step]_vars

\* C10 case: a request reserved addresses while another one was in flight.
C10_Witness ==
    /\ last.op = "body"
    /\ last.status = 0
    /\ Len(last.emails) > 0
    /\ BagCardinality(inflight) >= 2
    /\ DailyBudget(dailyBuckets, now) < dailyCapOf(client)

\* ------------------------------------------------- one request's fan-out
\* The part of the handler between admission and the response: the callbacks
\* of emailsToProcess.map run side by side, each from one await to the next,
\* and the outbound operations they start settle in any order.

\* config.dnsConcurrency, scaled down.
DnsConcurrency == 2

\* emailsToProcess of the request: one address, two of one domain, two of
\* different domains, one of them malformed (a space in the local part), the
\* same address twice.
Batches ==
    {<< <<"alice", "@", "gmail", "com">> >>,
     << <<"alice", "@", "gmail", "com">>, <<"bob", "@", "gmail", "com">> >>,
     << <<"alice", "@", "gmail", "com">>, <<"carol", "@", "example", "com">> >>,
     << <<"al", " ", "ice", "@", "gmail", "com">>, <<"carol", "@", "example", "com">> >>,
     << <<"carol", "@", "example", "com">>, <<"carol", "@", "example", "com">> >>}

\* The calls the handler wraps in limit(...); checkGoogleAccount,
\* checkAppleAccount, checkGitHub and checkHIBP are called directly.
LimitedKinds == {"mx", "health", "intel", "dkim", "smtp", "microsoft", "gravatar", "pgp"}

\* An outbound operation: what it is, for which domain or address, the host an
\* SMTP session goes to, and whether it waits in the limiter, runs or is settled.
NewOp(kind, key, host, state) ==
    [kind |-> kind, key |-> key, host |-> host, state |-> state,
     failed |-> FALSE, answer |-> "none"]

\* The request's shared state as one synchronous piece of code sees it.
Fanout == [ops |-> ops, limiter |-> limiter, maps |-> domainMaps, calls |-> calls]

\* limit(fn): fn starts at once while fewer than dnsConcurrency are active, else
\* it waits in the queue.
limit(f, kind, key, host) ==
    IF f.limiter.activeCount < DnsConcurrency
    THEN [f EXCEPT !.ops = Append(@, NewOp(kind, key, host, "running")),
                   !.limiter.activeCount = @ + 1]
    ELSE [f EXCEPT !.ops = Append(@, NewOp(kind, key, host, "queued")),
                   !.limiter.queue = Append(@, Len(f.ops) + 1)]

\* A probe called without limit(...): it runs at once.
direct(f, kind, key) == [f EXCEPT !.ops = Append(@, NewOp(kind, key, <<>>, "running"))]

\* Variant: the pending promise is not put into the Map.
coalesceForgetful(f, map, domain) ==
    LET g == limit(f, map, domain, <<>>)
    IN  [g EXCEPT !.calls = Append(@, <<map, domain>>)]

\* getMx, getHealth, getIntel, getDkim: the pending promise of the domain if the
\* Map has one, else a new limit(...) call whose promise is put into the Map.
coalesce(f, map, domain) ==
    IF domain \in DOMAIN f.maps[map]
    THEN f
    ELSE LET g == limit(f, map, domain, <<>>)
         IN  [g EXCEPT !.maps[map] = MapSet(@, domain, Len(g.ops)),
                       !.calls = Append(@, <<map, domain>>)]

\* The promise a coalesced getter returns after the call.
pendingOf(f, map, domain) ==
    IF domain \in DOMAIN f.maps[map] THEN f.maps[map][domain] ELSE Len(f.ops)

getMx(f, domain) == coalesce(f, "mx", domain)
getHealth(f, domain) == coalesce(f, "health", domain)
getIntel(f, domain) == coalesce(f, "intel", domain)
getDkim(f, domain) == coalesce(f, "dkim", domain)

\* config.hibpApiKey is empty unless the deployment sets one.
HibpApiKeySet == FALSE

\* The local variables of one callback, the promises it awaits (by what they
\* are) and the collectors of the address that failed.
NoTask == NoMail @@ [awaiting |-> <<>>, failures |-> {}]

\* run ? limit(() => probe(email)) : Promise.resolve(null), and the same for a
\* probe called directly.
probeCall(run, f, kind, key) ==
    IF ~run THEN f
    ELSE IF kind \in LimitedKinds THEN limit(f, kind, key, <<>>)
    ELSE direct(f, kind, key)

\* The array handed to Promise.all, built left to right.
launchProbes(f, m, isSingleMode) ==
    probeCall(runHIBP(m, HibpApiKeySet),
        probeCall(runPgp(m),
            probeCall(runGitHub(m, isSingleMode),
                probeCall(runGravatar(m),
                    probeCall(runApple(m),
                        probeCall(runGoogle(m),
                            probeCall(runMicrosoft(m), f, "microsoft", m.email),
                            "google", m.email),
                        "apple", m.email),
                    "gravatar", m.email),
                "github", m.email),
            "pgp", m.email),
        "hibp", m.email)

\* The operations started between two lengths of ops, by kind.
startedSince(f, before) ==
    [kind \in {f.ops[k].kind : k \in (before + 1)..Len(f.ops)} |->
        CHOOSE k \in (before + 1)..Len(f.ops) : f.ops[k].kind = kind]

\* The callback from the provider detection to the await of the probes.
toProbes(f, m, isSingleMode) ==
    LET g == launchProbes(f, m, isSingleMode)
    IN  [f |-> g,
         task |-> [m EXCEPT !.pc = "probes", !.awaiting = startedSince(g, Len(f.ops))]]

\* The callback up to its first await.
startTask(f, raw) ==
    LET email == normalizeEmail(raw)
        syntaxOk == isValidSyntax(email)
        parsed == parseEmail(email)
        m == [NoTask EXCEPT !.email = email, !.syntaxOk = syntaxOk,
                            !.local = parsed.local, !.domain = parsed.domain,
                            !.notes = syntaxNotes(syntaxOk, parsed.domain)]
    IN  IF ~syntaxOk \/ m.domain = <<>>
        THEN [f |-> f, task |-> Finish(m)]
        ELSE LET g == getHealth(getMx(f, m.domain), m.domain)
             IN  [f |-> g,
                  task |-> [m EXCEPT !.pc = "dns",
                                     !.awaiting = [kind \in {"mx", "health"} |->
                                                      IF kind = "mx"
                                                      THEN pendingOf(getMx(f, m.domain), "mx", m.domain)
                                                      ELSE pendingOf(g, "health", m.domain)]]]

\* emailsToProcess.map(async (raw) => ...): every callback runs to its first
\* await, in the order of the addresses.
RECURSIVE startAll(_, _, _)
startAll(f, started, rest) ==
    IF rest = <<>> THEN [f |-> f, tasks |-> started]
    ELSE LET one == startTask(f, Head(rest))
         IN  startAll(one.f, Append(started, one.task), Tail(rest))

\* What a settled operation of the callback says, and whether it had failed.
answerOf(f, m, kind) == f.ops[m.awaiting[kind]].answer
failuresOf(f, m) == {kind \in DOMAIN m.awaiting : f.ops[m.awaiting[kind]].failed}

\* getMx and getHealth resolved: MX fields, then the SMTP probe or the probes.
afterDns(f, m0, isSingleMode) ==
    LET mxResult == answerOf(f, m0, "mx")
        health == answerOf(f, m0, "health")
        m1 == [m0 EXCEPT !.failures = @ \cup failuresOf(f, m0), !.domainHealth = health]
        m == IF mxResult.null
             THEN [m1 EXCEPT !.mx = "null"]
             ELSE [m1 EXCEPT !.mx = IF mxResult.hasMx THEN "true" ELSE "false",
                             !.mxHosts = mxResult.hosts,
                             !.implicitMx = mxResult.viaImplicitMx]
    IN  IF m.mx = "true" /\ Len(m.mxHosts) > 0
        THEN LET g == limit(f, "smtp", m.email, Head(m.mxHosts))
             IN  [f |-> g,
                  task |-> [m EXCEPT !.pc = "smtp",
                                     !.awaiting = [kind \in {"smtp"} |-> Len(g.ops)]]]
        ELSE toProbes(f, m, isSingleMode)

\* verifySmtp resolved.
afterSmtp(f, m, isSingleMode) ==
    toProbes(f, [m EXCEPT !.failures = @ \cup failuresOf(f, m),
                          !.smtp = answerOf(f, m, "smtp")], isSingleMode)

\* A probe's entry of providerChecks: left undefined when the probe did not
\* run or has nothing to say.
checkOf(f, m, kind) ==
    IF kind \in DOMAIN m.awaiting THEN answerOf(f, m, kind) ELSE "null"

\* The probes resolved: providerChecks, then domain intelligence and DKIM for
\* a domain with mail servers.
afterProbes(f, m0) ==
    LET m == [m0 EXCEPT !.failures = @ \cup failuresOf(f, m0),
                        !.providerChecks =
                            [kind \in DOMAIN NoChecks |-> checkOf(f, m0, kind)]]
    IN  IF m.syntaxOk /\ m.domain # <<>> /\ m.mx = "true"
        THEN LET g == getDkim(getIntel(f, m.domain), m.domain)
             IN  [f |-> g,
                  task |-> [m EXCEPT !.pc = "intel",
                                     !.awaiting = [kind \in {"intel", "dkim"} |->
                                                      IF kind = "intel"
                                                      THEN pendingOf(getIntel(f, m.domain), "intel", m.domain)
                                                      ELSE pendingOf(g, "dkim", m.domain)]]]
        ELSE [f |-> f, task |-> Finish([m EXCEPT !.awaiting = <<>>])]

\* getIntel and getDkim resolved: the result of the address.
afterIntel(f, m) ==
    [f |-> f,
     task |-> Finish([m EXCEPT !.failures = @ \cup failuresOf(f, m),
                               !.domainIntel = answerOf(f, m, "intel"),
                               !.awaiting = <<>>])]

\* How one TXT query of checkDomainHealth ends: with an SPF/DMARC record, with
\* ENODATA/ENOTFOUND, or with the "DNS timeout" rejection of withTimeout.
TxtOutcomes == {"record", "ENODATA", "timeout"}

\* checkDomainHealth: Promise.allSettled over the two TXT queries; a query that
\* did not fulfil counts as no record.
checkDomainHealth(spf, dmarc) ==
    [present |-> TRUE, hasSPF |-> spf = "record", hasDMARC |-> dmarc = "record"]

\* What lookupMx may return for a domain of the batch.
BatchMxAnswers(domain) ==
    {r \in MxAnswers(domain) :
        \/ r.null
        \/ ~r.hasMx
        \/ ~r.viaImplicitMx /\ r.hosts \in {<< <<"gmail-smtp-in", "l", "google", "com">> >>,
                        << <<"mx", "example", "com">> >>}}

\* The ways an operation can settle: its answer, and whether the collector had
\* failed (timeout, network or DNS error) to get one.
Settlements(op) ==
    CASE op.kind = "mx" ->
             {[answer |-> r, failed |-> r.null] : r \in BatchMxAnswers(op.key)}
      [] op.kind = "health" ->
             {[answer |-> checkDomainHealth(t, t), failed |-> t = "timeout"] :
                 t \in TxtOutcomes}
      [] op.kind = "smtp" ->
             {[answer |-> "accepted", failed |-> FALSE],
              [answer |-> "rejected", failed |-> FALSE],
              [answer |-> "error", failed |-> TRUE]}
      [] op.kind = "intel" ->
             {[answer |-> CHOOSE r \in IntelAnswers :
                             r.websiteAlive = "true" /\ r.isParked = "false"
                             /\ r.blacklisted = "false" /\ r.domainAgeDays = <<4000>>,
               failed |-> FALSE],
              [answer |-> CHOOSE r \in IntelAnswers :
                             r.websiteAlive = "null" /\ r.domainAgeDays = <<>>,
               failed |-> TRUE]}
      [] op.kind = "dkim" -> {[answer |-> "signals", failed |-> FALSE]}
      [] op.kind = "gravatar" ->
             {[answer |-> "true", failed |-> FALSE],
              [answer |-> "null", failed |-> TRUE]}
      [] op.kind = "google" ->
             {[answer |-> "false", failed |-> FALSE],
              [answer |-> "null", failed |-> TRUE]}
      [] OTHER -> {[answer |-> "null", failed |-> TRUE]}

\* p-limit's next(): the slot is given back and the head of the queue starts.
release(f) ==
    IF f.limiter.queue = <<>>
    THEN [f EXCEPT !.limiter.activeCount = @ - 1]
    ELSE [f EXCEPT !.ops[Head(f.limiter.queue)].state = "running",
                   !.limiter.queue = Tail(@)]

\* The fan-out state goes back into the variables.
Store(f) ==
    /\ ops' = f.ops
    /\ limiter' = f.limiter
    /\ domainMaps' = f.maps
    /\ calls' = f.calls

\* The request was admitted with allowedCount addresses of its body:
\* emailsToProcess = body.emails.slice(0, allowedCount), and emailsToProcess.map
\* starts every callback.
BatchStart(emails, allowedCount) ==
    /\ tasks = <<>>
    /\ ~response.sent
    /\ bodyEmails' = emails
    /\ LET emailsToProcess == SubSeq(emails, 1, allowedCount)
           all == startAll(Fanout, <<>>, emailsToProcess)
       IN  /\ Store(all.f)
           /\ tasks' = all.tasks
    /\ UNCHANGED <<auxVars, gateVars, mail, response, session, dns, probe, evidence>>

\* An outbound operation settles; a limited one frees its slot.
Settle(k, how) ==
    /\ ops[k].state = "running"
    /\ LET f == [Fanout EXCEPT !.ops[k].state = "settled",
                               !.ops[k].answer = how.answer,
                               !.ops[k].failed = how.failed]
       IN  Store(IF ops[k].kind \in LimitedKinds THEN release(f) ELSE f)
    /\ UNCHANGED <<auxVars, gateVars, mail, tasks, response, bodyEmails, session, dns, probe,
                   evidence>>

\* Everything a callback awaits has settled: it runs on to its next await or to
\* its result.
Continue(i) ==
    /\ tasks[i].pc \in {"dns", "smtp", "probes", "intel"}
    /\ \A kind \in DOMAIN tasks[i].awaiting : ops[tasks[i].awaiting[kind]].state = "settled"
    /\ LET m == tasks[i]
           isSingleMode == Len(tasks) = 1
           next == CASE m.pc = "dns" -> afterDns(Fanout, m, isSingleMode)
                     [] m.pc = "smtp" -> afterSmtp(Fanout, m, isSingleMode)
                     [] m.pc = "probes" -> afterProbes(Fanout, m)
                     [] m.pc = "intel" -> afterIntel(Fanout, m)
       IN  /\ Store(next.f)
           /\ tasks' = [tasks EXCEPT ![i] = next.task]
    /\ UNCHANGED <<auxVars, gateVars, mail, response, bodyEmails, session, dns, probe, evidence>>

\* Promise.all resolved: the results go out in the order of the addresses.
BatchRespond ==
    /\ tasks # <<>>
    /\ ~response.sent
    /\ \A i \in 1..Len(tasks) : tasks[i].pc = "done"
    /\ response' = [sent |-> TRUE,
                    list |-> [i \in 1..Len(tasks) |->
                                 [email |-> tasks[i].email, domain |-> tasks[i].domain,
                                  mx |-> tasks[i].mx, smtp |-> tasks[i].smtp,
                                  status |-> tasks[i].status,
                                  confidence |-> tasks[i].confidence,
                                  providerChecks |-> tasks[i].providerChecks]]]
    /\ UNCHANGED <<auxVars, gateVars, mail, tasks, ops, domainMaps, limiter, calls, bodyEmails,
                   session, dns, probe, evidence>>

BatchNext ==
    \/ \E emails \in Batches : \E allowedCount \in 1..Len(emails) :
          BatchStart(emails, allowedCount)
    \/ \E k \in 1..Len(ops) : \E how \in Settlements(ops[k]) : Settle(k, how)
    \/ \E i \in 1..Len(tasks) : Continue(i)
    \/ BatchRespond

BatchSpec == EmailInit /\ [][BatchNext]_vars

\* ------------------------------------------------------------ fan-out claims
\* The per-domain lookups.
DomainKinds == {"mx", "health", "intel", "dkim"}

\* Callbacks i and j work on addresses of one domain.
SameDomain(i, j) ==
    /\ tasks[i].syntaxOk /\ tasks[j].syntaxOk
    /\ tasks[i].domain # <<>>
    /\ tasks[i].domain = tasks[j].domain

\* C11: within one request each of the MX lookup, the SPF/DMARC check, the
\* domain-intel collection and the DKIM scan is started at most once per
\* distinct domain, whatever the interleaving of the callbacks: the addresses of
\* a domain await the same pending promise and see the same result.
C11_OncePerDomain ==
    /\ \A a, b \in 1..Len(calls) : calls[a] = calls[b] => a = b
    /\ \A a, b \in 1..Len(ops) :
          (ops[a].kind \in DomainKinds /\ ops[a].kind = ops[b].kind
              /\ ops[a].key = ops[b].key) => a = b
    /\ \A i, j \in 1..Len(tasks) :
          SameDomain(i, j) =>
              /\ \A kind \in DomainKinds \cap DOMAIN tasks[i].awaiting \cap DOMAIN tasks[j].awaiting :
                    tasks[i].awaiting[kind] = tasks[j].awaiting[kind]
              /\ (tasks[i].pc # "dns" /\ tasks[j].pc # "dns") =>
                    /\ tasks[i].mx = tasks[j].mx
                    /\ tasks[i].mxHosts = tasks[j].mxHosts
                    /\ tasks[i].domainHealth = tasks[j].domainHealth
              /\ (tasks[i].pc = "done" /\ tasks[j].pc = "done") =>
                    tasks[i].domainIntel = tasks[j].domainIntel

\* C11 case: two addresses of one domain went through all four lookups, which
\* were invoked four times in all.
C11_Witness ==
    /\ Len(tasks) = 2
    /\ tasks[1].email # tasks[2].email
    /\ SameDomain(1, 2)
    /\ tasks[1].pc = "done" /\ tasks[2].pc = "done"
    /\ tasks[1].mx = "true"
    /\ {calls[a][1] : a \in 1..Len(calls)} = DomainKinds
    /\ Len(calls) = 4

\* The confidence of a finished callback had its SPF/DMARC check said nothing.
ConfidenceWithoutHealth(m) ==
    computeConfidence(m.syntaxOk, m.mx, m.smtp, riskFlagsOf(m), m.implicitMx,
                      NoHealth, providersOf(m), intelOf(m))

\* C12: the response has one result per processed address, in input order, and
\* a collector that failed (timeout, DNS or network error) shows in the result
\* of the address as unknown evidence: mx unknown, SMTP verdict error, a null
\* provider check, null domain intelligence, no SPF/DMARC signal in the
\* confidence.
C12_FailureShownUnknown ==
    /\ response.sent =>
          /\ Len(response.list) = Len(tasks)
          /\ \A i \in 1..Len(tasks) : response.list[i].email = tasks[i].email
    /\ \A i \in 1..Len(tasks) :
          tasks[i].pc = "done" =>
              /\ "mx" \in tasks[i].failures => tasks[i].mx = "null"
              /\ "smtp" \in tasks[i].failures => tasks[i].smtp = "error"
              /\ \A kind \in DOMAIN NoChecks :
                    kind \in tasks[i].failures => tasks[i].providerChecks[kind] = "null"
              /\ "intel" \in tasks[i].failures => tasks[i].domainIntel.websiteAlive = "null"
              /\ "health" \in tasks[i].failures =>
                    tasks[i].confidence = ConfidenceWithoutHealth(tasks[i])

\* The outbound operations of the request that are in flight.
InFlight == {k \in 1..Len(ops) : ops[k].state = "running"}

\* C15: within one request the outbound operations in flight (the MX, health,
\* intel and DKIM lookups, the SMTP probes and all provider probes) never
\* number more than the configured DNS concurrency.
C15_InFlightBounded == Cardinality(InFlight) <= DnsConcurrency

\* C16: no two SMTP sessions to one MX host are in flight at a time, also when
\* several addresses of a batch share the domain.
C16_SmtpSerializedPerHost ==
    \A a, b \in InFlight :
        (ops[a].kind = "smtp" /\ ops[b].kind = "smtp" /\ ops[a].host = ops[b].host)
            => a = b

\* An operation that runs under a deadline of its own settles, if only by the
\* deadline: lookupMx and checkDomainHealth race their queries against
\* withTimeout, smtpSession arms a timer, the probes and the domain-intel
\* fetches abort on one (taken here to cover their body reads too). probeTxt of the DKIM scan arms a timer whose
\* AbortController nothing listens to: its resolveTxt settles when the resolver
\* answers, if it does.
SettleByDeadline ==
    \E k \in 1..Len(ops) :
        /\ ops[k].kind # "dkim"
        /\ \E how \in Settlements(ops[k]) : Settle(k, how)

\* A request for one address (single mode).
SingleNext ==
    \/ \E emails \in {b \in Batches : Len(b) = 1} : BatchStart(emails, 1)
    \/ \E k \in 1..Len(ops) : \E how \in Settlements(ops[k]) : Settle(k, how)
    \/ \E i \in 1..Len(tasks) : Continue(i)
    \/ BatchRespond

\* That request under the scheduling of the event loop: a callback whose
\* awaited promises have settled resumes, Promise.all resolves once every
\* callback has returned, and the deadlines fire.
SingleLive ==
    /\ EmailInit /\ [][SingleNext]_vars
    /\ WF_vars(SettleByDeadline)
    /\ WF_vars(\E i \in 1..Len(tasks) : Continue(i))
    /\ WF_vars(BatchRespond)

MaxCallers == 3
MaxProbeTicks == 4
ProbeTickMs == 250

MIN_INTERVAL_MS == 500

\* One call: where it is, when its sleep ends, when its fetch went out.
NewCaller == [pc |-> "sleeping", wakeAt |-> 0, startedAt |-> -1]

\* lastCallTs = Date.now(), then the fetch goes out.
startFetch(p, c) ==
    [p EXCEPT !.lastCallTs = p.now,
              !.callers[c].pc = "fetching",
              !.callers[c].startedAt = p.now]

\* checkMicrosoftAccount up to its first await: wait is computed from
\* lastCallTs as it is now; with nothing to wait for the fetch goes out at once.
ProbeEnter ==
    /\ Len(probe.callers) < MaxCallers
    /\ LET wait == MIN_INTERVAL_MS - (probe.now - probe.lastCallTs)
           c == Len(probe.callers) + 1
           p == [probe EXCEPT !.callers = Append(@, NewCaller)]
       IN  probe' = IF wait > 0
                    THEN [p EXCEPT !.callers[c].wakeAt = probe.now + wait]
                    ELSE startFetch(p, c)
    /\ UNCHANGED <<auxVars, gateVars, mail, batchVars, session, dns, evidence>>

\* The sleep of a caller is over.
ProbeWake(c) ==
    /\ probe.callers[c].pc = "sleeping"
    /\ probe.callers[c].wakeAt <= probe.now
    /\ probe' = startFetch(probe, c)
    /\ UNCHANGED <<auxVars, gateVars, mail, batchVars, session, dns, evidence>>

\* The fetch of a caller ends: a response, or the abort of its timer.
ProbeSettle(c) ==
    /\ probe.callers[c].pc = "fetching"
    /\ probe' = [probe EXCEPT !.callers[c].pc = "done"]
    /\ UNCHANGED <<auxVars, gateVars, mail, batchVars, session, dns, evidence>>

\* Time passes; a sleep that is over ends before it passes further.
ProbeTick ==
    /\ probe.now < StartNow + MaxProbeTicks * ProbeTickMs
    /\ \A c \in 1..Len(probe.callers) :
          probe.callers[c].pc = "sleeping" => probe.callers[c].wakeAt > probe.now
    /\ probe' = [probe EXCEPT !.now = @ + ProbeTickMs]
    /\ UNCHANGED <<auxVars, gateVars, mail, batchVars, session, dns, evidence>>

ProbeNext ==
    \/ ProbeEnter
    \/ \E c \in 1..Len(probe.callers) : ProbeWake(c)
    \/ \E c \in 1..Len(probe.callers) : ProbeSettle(c)
    \/ ProbeTick

ProbeSpec == Init /\ [][ProbeNext]_vars

\* C14: the calls to one provider are serialized with its minimum spacing: at
\* most one is in flight at a time, and no two go out less than the minimum
\* interval apart.
C14_SerializedWithSpacing ==
    \A a, b \in 1..Len(probe.callers) :
        a # b =>
            /\ ~(probe.callers[a].pc = "fetching" /\ probe.callers[b].pc = "fetching")
            /\ (probe.callers[a].startedAt >= 0 /\ probe.callers[b].startedAt >= probe.callers[a].startedAt)
                  => probe.callers[b].startedAt - probe.callers[a].startedAt >= MIN_INTERVAL_MS

\* ---------------------------------------------------------- one SMTP session
\* smtpSession: the replies of the server drive the phases from the banner to
\* the two RCPT probes.

\* Reply codes the server sends.
ReplyCodes == {220, 250, 251, 354, 450, 550}

\* mxHosts.slice(0, 2)
MaxSmtpHosts == 2

\* A line of the server: its code (none when the first three characters are no
\* number), whether it is a continuation line ("250-"), whether it mentions
\* STARTTLS, whether it matches one of USER_UNKNOWN_PATTERNS.
ReplyLines ==
    [code : {<<c>> : c \in ReplyCodes} \cup {<<>>},
     multi : BOOLEAN, starttls : BOOLEAN, unknown : BOOLEAN]

\* Variant: every call settles the session anew.
finishEveryCall(s, verdict, code) ==
    [s EXCEPT !.phase = "done", !.verdict = verdict, !.code = code]

\* finish(verdict, code): the first call settles the session.
finish(s, verdict, code) ==
    IF s.phase = "done" THEN s
    ELSE [s EXCEPT !.phase = "done", !.verdict = verdict, !.code = code]

\* Variant: the reply to the random recipient is not looked at.
interpretAndFinishRealOnly(s) ==
    IF s.realCode = <<>> \/ s.fakeCode = <<>> THEN finish(s, "error", <<>>)
    ELSE LET realCode == s.realCode[1]
         IN  IF realCode >= 400 /\ realCode < 500 THEN finish(s, "greylisted", s.realCode)
             ELSE IF realCode >= 200 /\ realCode < 300 THEN finish(s, "accepted", s.realCode)
             ELSE IF realCode >= 500 /\ s.realUnknown THEN finish(s, "rejected", s.realCode)
             ELSE finish(s, "error", s.realCode)

interpretAndFinish(s) ==
    IF s.realCode = <<>> \/ s.fakeCode = <<>> THEN finish(s, "error", <<>>)
    ELSE LET realOk == s.realCode[1] >= 200 /\ s.realCode[1] < 300
             realTmp == s.realCode[1] >= 400 /\ s.realCode[1] < 500
             realBad == s.realCode[1] >= 500
             fakeOk == s.fakeCode[1] >= 200 /\ s.fakeCode[1] < 300
         IN  IF realTmp THEN finish(s, "greylisted", s.realCode)
             ELSE IF realOk /\ fakeOk THEN finish(s, "catch-all", s.realCode)
             ELSE IF realOk /\ ~fakeOk THEN finish(s, "accepted", s.realCode)
             ELSE IF realBad
                  THEN IF s.realUnknown THEN finish(s, "rejected", s.realCode)
                       ELSE finish(s, "error", s.realCode)
             ELSE finish(s, "error", s.realCode)

\* sock.write(command).
write(s, command) == [s EXCEPT !.sent = Append(@, command)]

\* The final line of a reply, by phase.
finalLine(s, line) ==
    LET code == line.code[1]
    IN  CASE s.phase = "banner" ->
                 IF code # 220 THEN finish(s, "error", line.code)
                 ELSE write([s EXCEPT !.phase = "ehlo"], "EHLO")
          [] s.phase = "ehlo" ->
                 IF code # 250 THEN finish(s, "error", line.code)
                 ELSE IF s.serverSupportsStarttls
                      THEN write([s EXCEPT !.phase = "starttls"], "STARTTLS")
                 ELSE write([s EXCEPT !.phase = "mail"], "MAIL FROM")
          [] s.phase = "starttls" ->
                 IF code # 220 THEN write([s EXCEPT !.phase = "mail"], "MAIL FROM")
                 ELSE [s EXCEPT !.upgrading = TRUE]
          [] s.phase = "ehlo2" ->
                 IF code # 250 THEN finish(s, "error", line.code)
                 ELSE write([s EXCEPT !.phase = "mail"], "MAIL FROM")
          [] s.phase = "mail" ->
                 IF code < 200 \/ code >= 300 THEN finish(s, "error", line.code)
                 ELSE write([s EXCEPT !.phase = "rcpt-real", !.realTextUnknown = FALSE],
                            "RCPT real")
          [] s.phase = "rcpt-real" ->
                 write([s EXCEPT !.realCode = line.code, !.realUnknown = line.unknown,
                                 !.realTextUnknown = @ \/ line.unknown,
                                 !.phase = "rcpt-fake"],
                       "RCPT random")
          [] s.phase = "rcpt-fake" ->
                 interpretAndFinish(
                     write([s EXCEPT !.fakeCode = line.code, !.phase = "quit"], "QUIT"))
          [] OTHER -> s

\* handleLine: a line without a code is dropped, a continuation line only
\* counts for the STARTTLS capability.
handleLine(s, line) ==
    LET inEhlo == s.phase \in {"ehlo", "ehlo2"}
        seen == [s EXCEPT !.serverSupportsStarttls = @ \/ (inEhlo /\ line.starttls),
                          !.realTextUnknown =
                              @ \/ (s.phase = "rcpt-real" /\ line.code # <<>> /\ line.unknown)]
    IN  IF line.code = <<>> THEN s
        ELSE IF line.multi THEN seen
        ELSE finalLine(seen, line)

\* A session is open: it has not resolved, and it did not throw out of
\* verifySmtp's last round.
Open(s) == s.mxHosts # <<>> /\ s.phase # "done" /\ s.result = "none"

\* A line arrives on the socket. onData hands on every line of a chunk, also
\* the lines behind the 220 that set the TLS handshake off.
SmtpLine(line) ==
    /\ Open(session)
    /\ session' = handleLine(session, line)
    /\ UNCHANGED <<auxVars, gateVars, mail, batchVars, dns, probe, evidence>>

\* The TLS handshake after STARTTLS is through: EHLO again.
SmtpSecureConnect ==
    /\ Open(session)
    /\ session.upgrading
    /\ session' = write([session EXCEPT !.upgrading = FALSE, !.phase = "ehlo2",
                                        !.serverSupportsStarttls = FALSE], "EHLO")
    /\ UNCHANGED <<auxVars, gateVars, mail, batchVars, dns, probe, evidence>>

\* Variant: timer and socket handlers only cover the wait for the banner.
SmtpFailBeforeBanner ==
    /\ Open(session)
    /\ session.phase = "banner"
    /\ session' = finish(session, "error", <<>>)
    /\ UNCHANGED <<auxVars, gateVars, mail, batchVars, dns, probe, evidence>>

\* The session timer, a socket timeout, a socket error or the close of the
\* socket.
SmtpFail ==
    /\ Open(session)
    /\ session' = finish(session, "error", <<>>)
    /\ UNCHANGED <<auxVars, gateVars, mail, batchVars, dns, probe, evidence>>

\* A session has resolved and verifySmtp has not gone on yet.
Resolved(s) == s.mxHosts # <<>> /\ s.phase = "done" /\ s.result = "none"

\* The rest of the chunk whose line resolved the session: onData's loop hands
\* every line of it to handleLine.
SmtpLateLine(line) ==
    /\ Resolved(session)
    /\ session' = [handleLine(session, line) EXCEPT !.late = TRUE]
    /\ UNCHANGED <<auxVars, gateVars, mail, batchVars, dns, probe, evidence>>

\* The close event of the destroyed socket, or a timeout or error event or
\* the session timer due in the same turn. A destroyed socket has no
\* secureConnect event.
SmtpLateFail ==
    /\ Resolved(session)
    /\ session' = [finish(session, "error", <<>>) EXCEPT !.late = TRUE]
    /\ UNCHANGED <<auxVars, gateVars, mail, batchVars, dns, probe, evidence>>

\* for (const host of mxHosts.slice(0, 2)): the session on the next host, or on
\* the same host again after a greylisted one.
\* Variant: the retry goes to the host after the greylisting one.
nextSessionOtherHost(s, host, retrying) ==
    [NewSession EXCEPT !.records = s.records, !.mxHosts = s.mxHosts,
                       !.sessions = s.sessions + 1,
                       !.host = IF retrying THEN host + 1 ELSE host,
                       !.retrying = retrying,
                       !.first = IF retrying THEN s.verdict ELSE "none"]

nextSession(s, host, retrying) ==
    [NewSession EXCEPT !.records = s.records, !.mxHosts = s.mxHosts,
                       !.sessions = s.sessions + 1,
                       !.host = host, !.retrying = retrying,
                       !.first = IF retrying THEN s.verdict ELSE "none"]

\* The loop's way on after an error verdict or a caught exception: the second
\* host when there is one, else the error result after the loop.
nextHost(s) ==
    IF s.host < Min(MaxSmtpHosts, Len(s.mxHosts)) THEN nextSession(s, s.host + 1, FALSE)
    ELSE [s EXCEPT !.result = "error"]

\* MX records a resolver may return: exchange and priority, in the order of
\* the answer.
MxRecordLists ==
    {<< [exchange |-> "mx1", priority |-> 10] >>,
     << [exchange |-> "mx1", priority |-> 20], [exchange |-> "mx2", priority |-> 10] >>,
     << [exchange |-> "mx1", priority |-> 10], [exchange |-> "mx2", priority |-> 20],
        [exchange |-> "mx3", priority |-> 5] >>}

\* records.sort((a, b) => a.priority - b.priority): a stable sort.
RECURSIVE sortByPriority(_)
sortByPriority(records) ==
    IF records = <<>> THEN <<>>
    ELSE LET least == CHOOSE i \in 1..Len(records) :
                          \A j \in 1..Len(records) :
                              \/ records[i].priority < records[j].priority
                              \/ records[i].priority = records[j].priority /\ i <= j
         IN  <<records[least]>> \o
             sortByPriority(SubSeq(records, 1, least - 1)
                                \o SubSeq(records, least + 1, Len(records)))

\* Variant: the hosts in the order of the answer.
hostsInAnswerOrder(records) == [i \in 1..Len(records) |-> records[i].exchange]

\* lookupMx's host list.
hostsOf(records) == [i \in 1..Len(records) |-> sortByPriority(records)[i].exchange]

\* The handler calls verifySmtp with the hosts lookupMx returned; the first
\* session starts.
SmtpCall(records) ==
    /\ session.mxHosts = <<>>
    /\ session' = [session EXCEPT !.records = records, !.mxHosts = hostsOf(records),
                                  !.sessions = 1]
    /\ UNCHANGED <<auxVars, gateVars, mail, batchVars, dns, probe, evidence>>

\* verifySmtp after `await smtpSession(...)`.
SmtpSettled ==
    /\ session.phase = "done"
    /\ session.result = "none"
    /\ session' =
          IF session.retrying
          THEN [session EXCEPT !.result = IF session.verdict \notin {"error", "greylisted"}
                                          THEN session.verdict ELSE session.first]
          ELSE IF session.verdict = "greylisted" THEN nextSession(session, session.host, TRUE)
          ELSE IF session.verdict # "error" THEN [session EXCEPT !.result = session.verdict]
          ELSE nextHost(session)
    /\ UNCHANGED <<auxVars, gateVars, mail, batchVars, dns, probe, evidence>>

\* smtpSession throws while it sets the socket up: verifySmtp's catch goes on
\* with the loop. The retry on a host is set up with the arguments of the
\* session before it, which did not throw.
SmtpThrows ==
    /\ Open(session)
    /\ session.phase = "banner"
    /\ ~session.retrying
    /\ session' = nextHost(session)
    /\ UNCHANGED <<auxVars, gateVars, mail, batchVars, dns, probe, evidence>>

SmtpNext ==
    \/ \E line \in ReplyLines : SmtpLine(line)
    \/ SmtpSecureConnect
    \/ SmtpFail
    \/ \E records \in MxRecordLists : SmtpCall(records)
    \/ SmtpSettled
    \/ SmtpThrows
    \/ \E line \in ReplyLines : SmtpLateLine(line)
    \/ SmtpLateFail

SmtpSpec == Init /\ [][SmtpNext]_vars

\* The handler calls verifySmtp, every session has its timer, and verifySmtp
\* goes on when a session resolved.
SmtpLive ==
    /\ Init /\ [][SmtpNext]_vars
    /\ WF_vars(\E records \in MxRecordLists : SmtpCall(records))
    /\ WF_vars(SmtpFail)
    /\ WF_vars(SmtpSettled)

Is2xx(code) == code # <<>> /\ code[1] >= 200 /\ code[1] < 300

\* C17: a session that got the final replies to both RCPT commands, the one to
\* the real recipient being 2xx, has the verdict catch-all when the reply to
\* the random recipient is 2xx too, and accepted when it is anything else.
C17_TwoProbe ==
    (session.realCode # <<>> /\ session.fakeCode # <<>> /\ Is2xx(session.realCode))
        => /\ session.phase = "done"
           /\ session.verdict = IF Is2xx(session.fakeCode) THEN "catch-all" ELSE "accepted"

\* C17 case: both recipients were accepted (250 and 251).
C17_Witness ==
    /\ session.realCode = <<250>>
    /\ session.fakeCode = <<251>>
    /\ session.verdict = "catch-all"

\* --------------------------------------------------------------- MX resolver
\* lookupMx with its module-level cache, as concurrent lookups of a domain
\* (from different requests) run it.

\* Lookups modelled, steps of the clock, and ttlMs in steps.
MaxLookups == 2
MaxDnsTicks == 3
DnsTtlTicks == 2

\* How resolveMx raced against the timeout ends.
MxOutcomes == {"records", "empty", "ENOTFOUND", "ENODATA", "timeout", "SERVFAIL"}

\* How resolve4 or resolve6 raced against the timeout ends.
AddrOutcomes == {"addresses", "ENODATA", "timeout", "SERVFAIL"}

\* A query that ended neither with an answer nor with ENOTFOUND/ENODATA.
Errored(outcome) == outcome \in {"timeout", "SERVFAIL"}

NullResult == [null |-> TRUE, hasMx |-> FALSE, hosts |-> <<>>, viaImplicitMx |-> FALSE]

\* The lookup returns: its result, whether it put it into the cache, and
\* whether the resolution had timed out or failed (a query did, and no other
\* query gave the answer).
returned(d, c, result, set, errored) ==
    [d EXCEPT !.lookups[c].pc = "done",
              !.lookups[c].result = result,
              !.lookups[c].cached = set,
              !.lookups[c].errored = @ \/ errored,
              !.cache = IF set
                        THEN MapSet(@, d.lookups[c].domain,
                                    [result |-> result,
                                     expiresAt |-> d.lookups[c].now + DnsTtlTicks])
                        ELSE @]

\* fallbackToAddressRecord: Promise.allSettled over the A and AAAA queries; a
\* query that did not fulfil adds no address.
fallbackToAddressRecord(d, c, v4, v6) ==
    IF "addresses" \in {v4, v6}
    THEN returned(d, c, [null |-> FALSE, hasMx |-> TRUE,
                         hosts |-> <<d.lookups[c].domain>>, viaImplicitMx |-> TRUE],
                  TRUE, FALSE)
    ELSE returned(d, c, [null |-> FALSE, hasMx |-> FALSE, hosts |-> <<>>,
                         viaImplicitMx |-> FALSE],
                  TRUE, Errored(v4) \/ Errored(v6))

\* lookupMx up to its first await: a live cache entry is returned, else the MX
\* query goes out.
DnsLookup(domain) ==
    /\ Len(dns.lookups) < MaxLookups
    /\ LET c == Len(dns.lookups) + 1
           d == [dns EXCEPT !.lookups =
                     Append(@, [domain |-> domain, now |-> dns.now, pc |-> "mx",
                                result |-> NullResult, cached |-> FALSE,
                                errored |-> FALSE, hit |-> FALSE])]
       IN  dns' = IF domain \in DOMAIN dns.cache /\ dns.cache[domain].expiresAt > dns.now
                  THEN [d EXCEPT !.lookups[c].pc = "done", !.lookups[c].hit = TRUE,
                                 !.lookups[c].result = dns.cache[domain].result]
                  ELSE d
    /\ UNCHANGED <<auxVars, gateVars, mail, batchVars, session, probe, evidence>>

\* The MX query ends.
DnsMxAnswer(c, outcome, hosts) ==
    /\ dns.lookups[c].pc = "mx"
    /\ dns' = CASE outcome = "records" ->
                     returned(dns, c, [null |-> FALSE, hasMx |-> TRUE, hosts |-> hosts,
                                       viaImplicitMx |-> FALSE], TRUE, FALSE)
                [] outcome \in {"empty", "ENOTFOUND", "ENODATA"} ->
                     [dns EXCEPT !.lookups[c].pc = "fallback"]
                [] OTHER -> returned(dns, c, NullResult, FALSE, TRUE)
    /\ UNCHANGED <<auxVars, gateVars, mail, batchVars, session, probe, evidence>>

\* The A and AAAA queries have both ended.
DnsFallbackAnswer(c, v4, v6) ==
    /\ dns.lookups[c].pc = "fallback"
    /\ dns' = fallbackToAddressRecord(dns, c, v4, v6)
    /\ UNCHANGED <<auxVars, gateVars, mail, batchVars, session, probe, evidence>>

\* Time passes.
DnsTick ==
    /\ dns.now < MaxDnsTicks
    /\ dns' = [dns EXCEPT !.now = @ + 1]
    /\ UNCHANGED <<auxVars, gateVars, mail, batchVars, session, probe, evidence>>

DnsNext ==
    \/ DnsLookup(<<"example", "com">>)
    \/ \E c \in 1..Len(dns.lookups) : \E outcome \in MxOutcomes :
          DnsMxAnswer(c, outcome, << <<"mx", "example", "com">> >>)
    \/ \E c \in 1..Len(dns.lookups) : \E v4, v6 \in AddrOutcomes :
          DnsFallbackAnswer(c, v4, v6)
    \/ DnsTick

DnsSpec == Init /\ [][DnsNext]_vars

\* The status of an address of the domain whose lookup returned this result.
StatusAfterLookup(l) ==
    Finish([NoMail EXCEPT !.email = <<"carol", "@">> \o l.domain, !.syntaxOk = TRUE,
                          !.local = <<"carol">>, !.domain = l.domain,
                          !.mx = IF l.result.null THEN "null"
                                 ELSE IF l.result.hasMx THEN "true" ELSE "false"]).status

\* C18: a lookup whose resolution timed out or failed with an error other than
\* ENOTFOUND/ENODATA (in the MX query, or in the A/AAAA queries of the
\* fallback with no address resolved) returns unknown, caches nothing, and the
\* address has status Unknown.
C18_ErrorIsUnknown ==
    \A c \in 1..Len(dns.lookups) :
        (dns.lookups[c].pc = "done" /\ dns.lookups[c].errored) =>
            /\ dns.lookups[c].result.null
            /\ ~dns.lookups[c].cached
            /\ StatusAfterLookup(dns.lookups[c]) = "Unknown"

\* ------------------------------------------------------------- fusion engine
\* computeStatus and computeConfidence as functions of their arguments.

\* riskFlags as getRiskFlags builds them.
RiskFlagLists ==
    {<<>>, <<"Role-based address">>, <<"Disposable domain">>,
     <<"Role-based address", "Disposable domain">>}

\* Gravatar, GitHub, PGP and HIBP results: none, each alone true.
SideSignals ==
    {[hasGravatar |-> g, hasGitHub |-> h, hasPgpKey |-> p, hibpBreached |-> b] :
        g \in {"null"}, h \in {"null"}, p \in {"null"}, b \in {"null"}}
    \cup {[hasGravatar |-> "true", hasGitHub |-> "null", hasPgpKey |-> "null",
           hibpBreached |-> "null"],
          [hasGravatar |-> "null", hasGitHub |-> "true", hasPgpKey |-> "null",
           hibpBreached |-> "null"],
          [hasGravatar |-> "null", hasGitHub |-> "null", hasPgpKey |-> "true",
           hibpBreached |-> "null"],
          [hasGravatar |-> "null", hasGitHub |-> "null", hasPgpKey |-> "null",
           hibpBreached |-> "true"]}

\* ProviderSignals.
ProviderSignals ==
    {[microsoftExists |-> m, googleExists |-> g, appleExists |-> a,
      hasGravatar |-> s.hasGravatar, hasGitHub |-> s.hasGitHub,
      hasPgpKey |-> s.hasPgpKey, hibpBreached |-> s.hibpBreached,
      isMajorProvider |-> major] :
        m \in TriState, g \in TriState, a \in TriState, s \in SideSignals,
        major \in BOOLEAN}

\* IntelSignals: nothing known, a dead website, a parked and
\* blacklisted domain, a domain ten days old with a machine-made local part,
\* pattern flags.
IntelSignals ==
    {intelOf(NoMail),
     [websiteAlive |-> "false", isParked |-> "false", domainAgeDays |-> <<>>,
      blacklisted |-> "null", looksHuman |-> "true", patternFlags |-> <<>>],
     [websiteAlive |-> "true", isParked |-> "true", domainAgeDays |-> <<4000>>,
      blacklisted |-> "true", looksHuman |-> "true", patternFlags |-> <<>>],
     [websiteAlive |-> "null", isParked |-> "null", domainAgeDays |-> <<10>>,
      blacklisted |-> "false", looksHuman |-> "false", patternFlags |-> <<>>],
     [websiteAlive |-> "true", isParked |-> "false", domainAgeDays |-> <<29>>,
      blacklisted |-> "false", looksHuman |-> "true",
      patternFlags |-> <<"Random-looking local part">>]}

\* SPF/DMARC results: not collected, both, neither, SPF alone.
HealthSignals ==
    {NoHealth} \cup {h \in HealthAnswers : h.hasSPF \/ ~h.hasDMARC}

\* computeStatus is called.
FuseStatus ==
    /\ evidence.pc = "idle"
    /\ \E syntaxOk \in BOOLEAN, domain \in {<<>>, <<"example", "com">>},
          mx \in TriState, smtp \in SmtpVerdicts \cup {"null"},
          riskFlags \in RiskFlagLists, providers \in ProviderSignals :
          evidence' = [evidence EXCEPT
                          !.pc = "status", !.syntaxOk = syntaxOk, !.domain = domain,
                          !.mx = mx, !.smtp = smtp, !.riskFlags = riskFlags,
                          !.providers = providers,
                          !.status = computeStatus(syntaxOk, domain, mx, smtp,
                                                   riskFlags, providers)]
    /\ UNCHANGED <<auxVars, gateVars, mail, batchVars, session, dns, probe>>

\* computeConfidence is called for an address with good syntax and MX present.
FuseConfidence ==
    /\ evidence.pc = "idle"
    /\ \E smtp \in SmtpVerdicts \cup {"null"}, riskFlags \in RiskFlagLists,
          implicitMx \in BOOLEAN, domainHealth \in HealthSignals,
          providers \in ProviderSignals, intel \in IntelSignals :
          evidence' = [evidence EXCEPT
                          !.pc = "confidence", !.syntaxOk = TRUE,
                          !.domain = <<"example", "com">>, !.mx = "true",
                          !.smtp = smtp, !.riskFlags = riskFlags,
                          !.implicitMx = implicitMx, !.domainHealth = domainHealth,
                          !.providers = providers, !.intel = intel,
                          !.confidence = computeConfidence(TRUE, "true", smtp, riskFlags,
                                                           implicitMx, domainHealth,
                                                           providers, intel)]
    /\ UNCHANGED <<auxVars, gateVars, mail, batchVars, session, dns, probe>>

FusionNext == FuseStatus \/ FuseConfidence

FusionSpec == EmailInit /\ [][FusionNext]_vars

\* The twelve rules of the status ladder, as conditions on the evidence.
MainProviders(e) == {e.providers.microsoftExists, e.providers.googleExists, e.providers.appleExists}

LadderRule(n, e) ==
    CASE n = 1 -> ~e.syntaxOk \/ e.domain = <<>>
      [] n = 2 -> e.mx = "null"
      [] n = 3 -> e.mx = "false"
      [] n = 4 -> e.smtp = "rejected" /\ "true" \notin MainProviders(e)
      [] n = 5 -> "false" \in MainProviders(e)
      [] n = 6 -> "true" \in MainProviders(e) /\ e.riskFlags = <<>>
      [] n = 7 -> e.smtp \in {"catch-all", "greylisted"}
      [] n = 8 -> e.riskFlags # <<>>
      [] n = 9 -> e.smtp = "accepted"
      [] n = 10 -> "true" \in {e.providers.hasGravatar, e.providers.hasGitHub,
                              e.providers.hasPgpKey, e.providers.hibpBreached}
      [] n = 11 -> e.providers.isMajorProvider /\ e.smtp \in {"error", "null"}
      [] OTHER -> TRUE

LadderStatus ==
    <<"Invalid", "Unknown", "Invalid", "Invalid", "Invalid", "Valid",
      "Risky", "Risky", "Valid", "Valid", "Valid", "Unknown">>

FirstRule(e) == CHOOSE n \in 1..12 : LadderRule(n, e) /\ \A k \in 1..(n - 1) : ~LadderRule(k, e)

\* C19: for every combination of evidence computeStatus returns the status of
\* the first rule of the twelve-rule ladder that matches.
C19_StatusLadder ==
    evidence.pc = "status" => evidence.status = LadderStatus[FirstRule(evidence)]

\* C19 case: Microsoft says true and Google says false on an address without
\* risk flags whose SMTP probe was accepted: rule 5 comes before rules 6 and 9.
C19_Witness ==
    /\ evidence.pc = "status"
    /\ evidence.syntaxOk /\ evidence.domain # <<>> /\ evidence.mx = "true"
    /\ evidence.smtp = "accepted"
    /\ evidence.riskFlags = <<>>
    /\ evidence.providers.microsoftExists = "true"
    /\ evidence.providers.googleExists = "false"
    /\ evidence.status = "Invalid"

\* The confidence of the reference, stage by stage in the order of the
\* statement: base, Microsoft/Google/Apple floors, the cap of a false one,
\* Gravatar/GitHub/PGP/HIBP floors, implicit MX, SPF/DMARC, domain
\* intelligence and pattern, risk flags, clamp.
RefBase(e) ==
    CASE e.smtp = "accepted" -> 85
      [] e.smtp = "rejected" -> 3
      [] e.smtp = "catch-all" -> 45
      [] e.smtp = "greylisted" -> 40
      [] OTHER -> IF e.providers.isMajorProvider THEN 65 ELSE 35

RefFloor(score, signal, floor) == IF signal = "true" /\ score < floor THEN floor ELSE score

RefMain(e) ==
    LET floored == RefFloor(RefFloor(RefFloor(RefBase(e),
                       e.providers.microsoftExists, 93),
                       e.providers.googleExists, 94),
                       e.providers.appleExists, 93)
    IN  IF "false" \in MainProviders(e) /\ floored > 5 THEN 5 ELSE floored

RefSides(e) ==
    RefFloor(RefFloor(RefFloor(RefFloor(RefMain(e),
        e.providers.hasGravatar, 80),
        e.providers.hasGitHub, 82),
        e.providers.hasPgpKey, 80),
        e.providers.hibpBreached, 78)

RefImplicit(e) == IF e.implicitMx /\ RefSides(e) > 50 THEN RefSides(e) - 15 ELSE RefSides(e)

RefHealth(e) ==
    RefImplicit(e)
        + (IF e.domainHealth.present /\ e.domainHealth.hasSPF /\ e.domainHealth.hasDMARC
           THEN 3 ELSE 0)
        - (IF e.domainHealth.present /\ ~e.domainHealth.hasSPF /\ ~e.domainHealth.hasDMARC
           THEN 10 ELSE 0)

RefIntel(e) ==
    RefHealth(e)
        - (IF e.intel.websiteAlive = "false" THEN 10 ELSE 0)
        - (IF e.intel.isParked = "true" THEN 15 ELSE 0)
        - (IF e.intel.blacklisted = "true" THEN 20 ELSE 0)
        - (IF e.intel.domainAgeDays # <<>> /\ e.intel.domainAgeDays[1] < 30 THEN 15 ELSE 0)
        - (IF e.intel.looksHuman = "false" THEN 10 ELSE 0)
        - (IF e.intel.patternFlags # <<>> THEN 5 ELSE 0)

RECURSIVE RefFlags(_, _)
RefFlags(score, flags) ==
    IF flags = <<>> THEN score
    ELSE RefFlags(IF Head(flags) = "Disposable domain"
                  THEN (IF score > 25 THEN 25 ELSE score)
                  ELSE score - 10,
                  Tail(flags))

RefConfidence(e) ==
    LET score == RefFlags(RefIntel(e), e.riskFlags)
    IN  IF score < 0 THEN 0 ELSE IF score > 97 THEN 97 ELSE score

\* C20: for an address with good syntax and MX present computeConfidence
\* equals the reference: the base of the SMTP verdict, the floors 93/94/93 of a
\* true Microsoft/Google/Apple result and the cap 5 of any false one, the
\* floors 80/82/80/78 of Gravatar/GitHub/PGP/HIBP, the implicit-MX, SPF/DMARC,
\* domain-intelligence and pattern adjustments, the disposable cap and the
\* role-based penalty, clamped to 0..97.
C20_ConfidenceReference ==
    evidence.pc = "confidence" => evidence.confidence = RefConfidence(evidence)

\* ------------------------------------------------------ provider probe gating
ProbeKinds == {"microsoft", "google", "apple", "gravatar", "github", "pgp", "hibp"}
SideKinds == {"gravatar", "github", "pgp", "hibp"}

\* The callback is past its SMTP probe (or had none to make).
SmtpFinal(m) == m.pc \in {"probes", "intel", "done"}

\* The provider of the kind hosts the domain of the address.
HostedBy(m, kind) ==
    CASE kind = "microsoft" -> isMsHosted(m)
      [] kind = "google" -> isGoogleHosted(m)
      [] kind = "apple" -> isAppleHosted(m)
      [] OTHER -> FALSE

\* What the verdict of the address allows a probe of the kind.
Gated(m, kind) ==
    /\ SmtpFinal(m)
    /\ kind \in SideKinds => m.smtp \in {"error", "null"}
    /\ kind \notin SideKinds => HostedBy(m, kind) /\ m.smtp \in {"error", "null", "rejected"}
    /\ kind = "hibp" => HibpApiKeySet

C21_Gating ==
    /\ \A k \in 1..Len(ops) :
          ops[k].kind \in ProbeKinds =>
              \E i \in 1..Len(tasks) :
                  tasks[i].email = ops[k].key /\ Gated(tasks[i], ops[k].kind)
    /\ \A i \in 1..Len(tasks) :
          /\ \A kind \in ProbeKinds :
                (kind \in DOMAIN tasks[i].awaiting \/ tasks[i].providerChecks[kind] # "null")
                    => Gated(tasks[i], kind)
          /\ (SmtpFinal(tasks[i]) /\ tasks[i].smtp \in {"accepted", "catch-all", "greylisted"})
                => /\ tasks[i].providerChecks = NoChecks
                   /\ DOMAIN tasks[i].awaiting \cap ProbeKinds = {}

C21_Starts ==
    /\ \A k \in (Len(ops) + 1)..Len(ops') :
          ops'[k].kind \in ProbeKinds =>
              \E i \in 1..Len(tasks) :
                  /\ tasks[i].pc \in {"dns", "smtp"}
                  /\ tasks'[i].pc = "probes"
                  /\ tasks'[i].email = ops'[k].key
                  /\ tasks'[i].awaiting[ops'[k].kind] = k
    /\ \A i \in 1..Len(tasks) : SmtpFinal(tasks[i]) => tasks'[i].smtp = tasks[i].smtp

GitHubCalled == \E k \in 1..Len(ops) : ops[k].kind = "github"

\* C22 as stated: a request whose batch carries more than one address never
\* triggers a GitHub search.
C22_SkippedForBatches == Len(bodyEmails) > 1 => ~GitHubCalled

\* C22, amended: a request that processes more than one address (what the
\* daily cap leaves of its batch) never triggers a GitHub search; a batch cut to
\* one address is searched like a single address.
C22_SkippedWhenSeveralProcessed == Len(tasks) > 1 => ~GitHubCalled

\* C22 case: two addresses are processed, the SMTP verdict of one is
\* inconclusive, Gravatar was asked for it and GitHub was not.
C22_Witness ==
    /\ Len(tasks) = 2
    /\ \E i \in 1..2 :
          /\ tasks[i].pc = "done"
          /\ tasks[i].smtp = "error"
          /\ \E k \in 1..Len(ops) : ops[k].kind = "gravatar" /\ ops[k].key = tasks[i].email
    /\ ~GitHubCalled

\* ------------------------------------------------------- malformed input
\* The operations started for an address or for its domain.
LookupsFor(m) ==
    {k \in 1..Len(ops) : ops[k].key = m.email \/ (m.domain # <<>> /\ ops[k].key = m.domain)}

\* C23: an address whose normalized form fails the syntax check is finished
\* at once as Invalid with confidence 0 and the note "Invalid syntax", and no
\* DNS, SMTP, provider or domain-intelligence operation is started for it.
C23_MalformedSkipsLookups ==
    \A i \in 1..Len(tasks) :
        ~isValidSyntax(normalizeEmail(bodyEmails[i])) =>
            /\ tasks[i].pc = "done"
            /\ tasks[i].status = "Invalid"
            /\ tasks[i].confidence = 0
            /\ \E n \in 1..Len(tasks[i].notes) : tasks[i].notes[n] = "Invalid syntax"
            /\ tasks[i].awaiting = <<>>
            /\ LookupsFor(tasks[i]) = {}

\* A malformed address with a domain part was answered next to a well-formed
\* one whose lookups ran.
C23_Witness ==
    /\ response.sent
    /\ \E i \in 1..Len(tasks) :
          /\ ~tasks[i].syntaxOk
          /\ tasks[i].domain # <<>>
          /\ tasks[i].status = "Invalid"
    /\ Len(ops) > 0

\* ------------------------------------------------ domains without mail
\* C24: when the MX lookup answered that the domain has neither MX nor address
\* records (mx = false), the result is Invalid with a confidence of at most 5,
\* whatever the provider probes, risk flags and other signals say.
C24_NoMailServerIsInvalid ==
    (mail.pc = "done" /\ mail.mx = "false") =>
        /\ mail.status = "Invalid"
        /\ mail.confidence \in 0..5

\* A result for a domain without mail servers although Microsoft said the
\* account exists and a Gravatar was found.
C24_Witness ==
    /\ mail.pc = "done"
    /\ mail.mx = "false"
    /\ mail.providerChecks.microsoft = "true"
    /\ mail.providerChecks.gravatar = "true"
    /\ mail.status = "Invalid"

\* ----------------------------------------------------- disposable domains
\* C25: a result for an address of a disposable domain has a confidence of at
\* most 25 whatever the SMTP verdict and the provider, health and intel signals
\* are; a role-based address of such a domain with MX present and SMTP accepted
\* is Risky.
C25_DisposableCapped ==
    (mail.pc = "done" /\ mail.syntaxOk /\ mail.domain \in DISPOSABLE_SET) =>
        /\ mail.confidence <= 25
        /\ (/\ mail.local \in ROLE_LOCAL_PARTS
            /\ mail.mx = "true"
            /\ mail.smtp = "accepted") => mail.status = "Risky"

\* admin@mailinator.com with MX present, SMTP accepted and SPF and DMARC in
\* place: Risky, 25 (the role penalty comes before the cap).
C25_Witness ==
    /\ mail.pc = "done"
    /\ mail.email = <<"admin", "@", "mailinator", "com">>
    /\ mail.mx = "true"
    /\ mail.smtp = "accepted"
    /\ mail.domainHealth.hasSPF /\ mail.domainHealth.hasDMARC
    /\ mail.status = "Risky"
    /\ mail.confidence = 25

\* ------------------------------------------------------ oversized batches
\* The step is the handler's code after readBody, for a body with more
\* addresses than maxEmailsPerRequest.
OversizedRead ==
    /\ last'.op = "body"
    /\ inflight' # inflight
    /\ last'.n > MaxEmailsPerRequest

\* C26: a request with more addresses than the maximum batch size is answered
\* 400, passes no address on to the verification (no per-email result, no
\* lookup) and takes nothing from the identity's daily email cap or from the
\* global daily ceiling.
C26_OversizedRejected ==
    [][OversizedRead =>
          /\ last'.status = 400
          /\ last'.emails = <<>>
          /\ \A q \in BagToSet(inflight') : q \in BagToSet(inflight)
          /\ BagCardinality(inflight') = BagCardinality(inflight) - 1
          /\ dailyBuckets' = dailyBuckets
          /\ globalDailyEmails' = globalDailyEmails
          /\ globalResetsAt' = globalResetsAt
          /\ processed' = processed
          /\ mail' = mail
          /\ ioVars' = ioVars]_vars

\* An oversized batch was refused while the identity still had its whole daily
\* allowance and the global ceiling was untouched.
C26_Witness ==
    /\ last.op = "body"
    /\ last.n > MaxEmailsPerRequest
    /\ last.status = 400
    /\ DailyBudget(dailyBuckets, now) = dailyCapOf(client)
    /\ GlobalAt(globalDailyEmails, globalResetsAt, now) = 0

\* ------------------------------------------------------ SMTP sessions end
SmtpTyped ==
    /\ session.verdict \in SmtpVerdicts \cup {"none"}
    /\ session.result \in SmtpVerdicts \cup {"none"}
    /\ (session.phase = "done") <=> (session.verdict # "none")
    /\ session.result # "none" => session.phase \in {"done", "banner"}

SmtpOnce ==
    /\ (session.phase = "done" /\ session'.phase = "done") =>
           session'.verdict = session.verdict
    /\ session.result # "none" => session' = session
    /\ SmtpFail => session'.verdict = "error"

\* C27: whatever the server does (refuses, stays silent, sends garbage or
\* unexpected codes, closes in the middle, fails the TLS handshake), every
\* session ends with exactly one verdict out of accepted, rejected, catch-all,
\* greylisted and error, a connection-level failure gives error, nothing is
\* thrown out of verifySmtp, and verifySmtp returns a verdict in the end.
C27_AlwaysAVerdict ==
    /\ []SmtpTyped
    /\ [][SmtpOnce]_vars
    /\ <>(session.result # "none")

\* verifySmtp returned error: the first host's session gave error and the
\* second host's was cut off (timer, socket error or close) after the reply to
\* RCPT(real) had come.
C27_Witness ==
    /\ session.result = "error"
    /\ session.host = 2
    /\ session.phase = "done"
    /\ session.sent # <<>> /\ session.sent[Len(session.sent)] = "RCPT random"
    /\ session.code = <<>>

\* --------------------------------------------------- SMTP command order
\* What a session may have written, in order: without STARTTLS, with it, and
\* with a STARTTLS the server refused, after which MAIL FROM follows at once.
PlainDialogue == <<"EHLO", "MAIL FROM", "RCPT real", "RCPT random", "QUIT">>
TlsDialogue == <<"EHLO", "STARTTLS", "EHLO", "MAIL FROM", "RCPT real", "RCPT random", "QUIT">>

RefusedDialogue == <<"EHLO", "STARTTLS", "MAIL FROM", "RCPT real", "RCPT random", "QUIT">>

IsPrefix(p, q) == Len(p) <= Len(q) /\ SubSeq(q, 1, Len(p)) = p

HasSent(command) == \E i \in 1..Len(session.sent) : session.sent[i] = command

SmtpInOrder ==
    /\ \/ IsPrefix(session.sent, PlainDialogue)
       \/ IsPrefix(session.sent, TlsDialogue)
       \/ IsPrefix(session.sent, RefusedDialogue)
    /\ HasSent("RCPT random") <=> session.realCode # <<>>
    /\ session.verdict \notin {"none", "error"} => session.fakeCode # <<>>

\* A step that writes a command handles the final line of a reply, or is the
\* end of the TLS handshake the reply to STARTTLS set off.
SmtpAfterFinalLine ==
    (session'.phase # "banner" /\ session'.sent # session.sent) =>
        \/ \E line \in ReplyLines :
              /\ line.code # <<>> /\ ~line.multi
              /\ session' = handleLine(session, line)
        \/ session.upgrading /\ session'.phase = "ehlo2"

\* C28: a session writes its commands only in the order EHLO, [STARTTLS,
\* EHLO], MAIL FROM, RCPT(real), RCPT(random), QUIT (the second EHLO only when
\* the server took the STARTTLS), each only after the final line (never a
\* continuation line) of the reply before it; RCPT(random) follows the final
\* reply to RCPT(real) whatever its code, and a verdict is worked out of the
\* two replies only after the reply to RCPT(random).
C28_CommandOrder == []SmtpInOrder /\ [][SmtpAfterFinalLine]_vars

\* ------------------------------------------------------------ greylisting
Is4xx(code) == code # <<>> /\ code[1] >= 400 /\ code[1] < 500
Is5xx(code) == code # <<>> /\ code[1] >= 500

\* C29: a session whose final reply to RCPT(real) was a 4xx code has the
\* verdict greylisted.
C29_TempFailIsGreylisted ==
    (session.phase = "done" /\ Is4xx(session.realCode)) => session.verdict = "greylisted"

\* C30: a session whose reply to RCPT(real) was 5xx (and which got the reply
\* to RCPT(random)) is rejected when the text of the reply to RCPT(real), over
\* all its lines, holds a user-unknown phrase, and error otherwise.
C30_UserUnknownIsRejected ==
    (session.phase = "done" /\ Is5xx(session.realCode) /\ session.fakeCode # <<>>) =>
        session.verdict = IF session.realTextUnknown THEN "rejected" ELSE "error"

\* ------------------------------------------------------------- STARTTLS
\* How often a command was written.
TimesSent(command) == Cardinality({i \in 1..Len(session.sent) : session.sent[i] = command})

\* While the handshake the 220 set off is on, STARTTLS is the last command
\* written; STARTTLS is written once at most.
StartTlsState ==
    /\ session.upgrading => session.sent[Len(session.sent)] = "STARTTLS"
    /\ TimesSent("STARTTLS") <= 1
    /\ TimesSent("EHLO") <= 2

\* The final reply to the first EHLO leads to STARTTLS exactly when the reply
\* advertised it; the end of the handshake writes EHLO, a refusal MAIL FROM.
StartTlsStep ==
    /\ (session.phase = "ehlo" /\ session'.phase \in {"starttls", "mail"}) =>
           /\ (session'.phase = "starttls") <=> session'.serverSupportsStarttls
           /\ session'.sent = Append(session.sent,
                                     IF session'.serverSupportsStarttls
                                     THEN "STARTTLS" ELSE "MAIL FROM")
    /\ (session.upgrading /\ ~session'.upgrading /\ session'.phase # "done") =>
           /\ session'.phase = "ehlo2"
           /\ session'.sent = Append(session.sent, "EHLO")
           /\ ~session'.serverSupportsStarttls
    /\ (session.phase = "starttls" /\ session'.phase = "mail") =>
           /\ ~session.upgrading
           /\ session'.sent = Append(session.sent, "MAIL FROM")

\* C31: STARTTLS is written exactly when the reply to the first EHLO
\* advertises it; after a 220 the connection is upgraded and EHLO is written
\* again before MAIL FROM; after another reply the session goes on with MAIL
\* FROM in plaintext; STARTTLS is never written twice.
C31_OpportunisticStartTls == []StartTlsState /\ [][StartTlsStep]_vars

\* ----------------------------------------------------------- MX hosts
\* The priority the resolver gave for an exchange.
PriorityOf(exchange) ==
    LET r == CHOOSE i \in 1..Len(session.records) : session.records[i].exchange = exchange
    IN  session.records[r].priority

\* The hosts contacted so far are the first one or two of the list, and no
\* other host of the answer has a lower priority value than one of them.
HostsByPriority ==
    session.mxHosts # <<>> =>
        /\ session.host \in 1..Min(2, Len(session.mxHosts))
        /\ \A h \in 1..session.host :
              /\ \A g \in 1..h : PriorityOf(session.mxHosts[g]) <= PriorityOf(session.mxHosts[h])
              /\ \A i \in 1..Len(session.records) :
                    (\A g \in 1..session.host : session.mxHosts[g] # session.records[i].exchange)
                        => PriorityOf(session.mxHosts[h]) <= session.records[i].priority

\* verifySmtp moves to the second host only after the first host's session
\* gave error (or threw), and returns the first verdict that is not error, or
\* error when no host is left.
HostIteration ==
    /\ session'.host # session.host =>
           /\ session.host = 1 /\ session'.host = 2
           /\ session.verdict = "error" \/ session.phase = "banner"
    /\ (session.result = "none" /\ session'.result # "none") =>
           IF session'.result = "error"
           THEN /\ session.verdict \in {"error", "none"}
                /\ session.host = Min(2, Len(session.mxHosts))
           ELSE session'.result \in {session.verdict, session.first}

\* C32: verifySmtp contacts at most the first two MX hosts, lowest priority
\* value first; the second only when the first host's verdict is error; the
\* first verdict that is not error is returned, error when both give error,
\* and no third host is contacted.
C32_FirstTwoHosts == []HostsByPriority /\ [][HostIteration]_vars

\* Of three MX records the lowest (mx3, 5) gave error and the next (mx1, 10)
\* accepted; mx2 was not contacted.
C32_Witness ==
    /\ Len(session.records) = 3
    /\ session.host = 2
    /\ session.mxHosts[session.host] = "mx1"
    /\ session.result = "accepted"

\* ------------------------------------------------------- greylist retry
\* After a greylisted session exactly one more is opened, on the same host;
\* its verdict is returned when it is accepted, rejected or catch-all, and the
\* greylisted result otherwise; nothing is opened after a retry.
\* verifySmtp goes on after a session: the next session, or the result.
Returns == session'.sessions # session.sessions \/ session'.result # session.result

GreylistRetry ==
    /\ (session.phase = "done" /\ session.verdict = "greylisted" /\ ~session.retrying
           /\ Returns) =>
           /\ session'.phase = "banner" /\ session'.retrying
           /\ session'.host = session.host
           /\ session'.sessions = session.sessions + 1
           /\ session'.result = "none"
    /\ (session.retrying /\ session.phase = "done" /\ Returns) =>
           /\ session'.result =
                  IF session.verdict \in {"accepted", "rejected", "catch-all"}
                  THEN session.verdict ELSE "greylisted"
           /\ session'.sessions = session.sessions
    /\ session.retrying =>
           session'.host = session.host /\ session'.sessions = session.sessions

MaxIntelProbes == 11
\* A host counts from 10 probes. Time is counted in weeks: a record is stale
\* when it was last updated more than 1 week (7 * 24 * 60 * 60 * 1000 ms) ago.
MinProbes == 10
StaleWeeks == 1

\* The host verifySmtp reports: none, or an MX host in either letter case.
SmtpHosts == {"", "mx1", "MX1"}

\* lastUpdated is kept as Date.now() - lastUpdated, in weeks, and no further
\* than the first value the cleanup deletes.
NewServerRecord ==
    [totalProbes |-> 0, acceptedCount |-> 0, rejectedCount |-> 0, catchAllCount |-> 0,
     lastUpdated |-> 0]

serverRecord(serverMap, key) ==
    IF key \in DOMAIN serverMap THEN serverMap[key] ELSE NewServerRecord

countVerdict(record, verdict) ==
    [record EXCEPT
        !.totalProbes = @ + 1,
        !.lastUpdated = 0,
        !.acceptedCount = IF verdict = "accepted" THEN @ + 1 ELSE @,
        !.rejectedCount = IF verdict = "rejected" THEN @ + 1 ELSE @,
        !.catchAllCount = IF verdict = "catch-all" THEN @ + 1 ELSE @]

recordServerResult(serverMap, host, verdict) ==
    IF host = "" THEN serverMap
    ELSE MapSet(serverMap, toLowerCase(host),
                countVerdict(serverRecord(serverMap, toLowerCase(host)), verdict))

\* getServerCatchAllRate is not null: the host has a record of 10 probes or more.
hasCatchAllRate(serverMap, host) ==
    /\ host # ""
    /\ toLowerCase(host) \in DOMAIN serverMap
    /\ serverMap[toLowerCase(host)].totalProbes >= MinProbes

\* Variant: a rate of exactly 0.9 counts as well.
isSuspectedCatchAllFrom90(serverMap, host) ==
    /\ hasCatchAllRate(serverMap, host)
    /\ (serverMap[toLowerCase(host)].acceptedCount
            + serverMap[toLowerCase(host)].catchAllCount) * 10
         >= 9 * serverMap[toLowerCase(host)].totalProbes

\* rate > 0.9, with rate = (acceptedCount + catchAllCount) / totalProbes.
isSuspectedCatchAll(serverMap, host) ==
    /\ hasCatchAllRate(serverMap, host)
    /\ (serverMap[toLowerCase(host)].acceptedCount
            + serverMap[toLowerCase(host)].catchAllCount) * 10
         > 9 * serverMap[toLowerCase(host)].totalProbes

HistoricalNote == "Server historically accepts all addresses (suspected catch-all)"

smtpNote(smtp, overridden) ==
    CASE smtp = "rejected" -> <<"Mailbox does not exist (SMTP rejected)">>
      [] smtp = "accepted" -> <<"Mail server accepted this address">>
      [] smtp = "catch-all" /\ ~overridden ->
            <<"Server accepts all addresses (catch-all)">>
      [] smtp = "greylisted" -> <<"Server deferred (greylisted/temp block)">>
      [] smtp = "error" -> <<"SMTP verification inconclusive">>
      [] OTHER -> <<>>

\* Variant: the override for any verdict of a suspected host.
overridesAny(serverMap, host, verdict) ==
    host # "" /\ isSuspectedCatchAll(serverMap, host)

overrides(serverMap, host, verdict) ==
    verdict = "accepted" /\ host # "" /\ isSuspectedCatchAll(serverMap, host)

\* The handler once verifySmtp has returned (host, verdict): the result is
\* recorded, then checked against the record it is now part of. The status is
\* the one of an address with an MX, no risk flag and no provider probe.
reportSmtp(intel, host, verdict) ==
    [intel EXCEPT
        !.serverMap = recordServerResult(intel.serverMap, host, verdict),
        !.last = [host |-> host, verdict |-> verdict,
                  smtp |-> IF overrides(recordServerResult(intel.serverMap, host, verdict),
                                        host, verdict)
                           THEN "catch-all" ELSE verdict,
                  notes |-> IF overrides(recordServerResult(intel.serverMap, host, verdict),
                                         host, verdict)
                            THEN <<HistoricalNote>> \o smtpNote("catch-all", TRUE)
                            ELSE smtpNote(verdict, FALSE),
                  status |-> computeStatus(TRUE, <<"example", "com">>, "true",
                                IF overrides(recordServerResult(intel.serverMap, host,
                                                                verdict), host, verdict)
                                THEN "catch-all" ELSE verdict,
                                <<>>, providersOf(NoMail))]]

SmtpResult(host, verdict) ==
    /\ serverRecord(serverIntel.serverMap, toLowerCase(host)).totalProbes < MaxIntelProbes
    /\ serverIntel' = reportSmtp(serverIntel, host, verdict)
    /\ UNCHANGED <<gateVars, mail, batchVars, session, dns, probe, evidence, bounce>>

\* A week passes.
IntelWeek ==
    /\ serverIntel' = [serverIntel EXCEPT
           !.serverMap = [key \in DOMAIN @ |->
                             [@[key] EXCEPT !.lastUpdated = Min(@ + 1, StaleWeeks + 1)]]]
    /\ UNCHANGED <<gateVars, mail, batchVars, session, dns, probe, evidence, bounce>>

\* The setInterval callback: records last updated before the cutoff are deleted.
IntelCleanup ==
    /\ serverIntel' = [serverIntel EXCEPT
           !.serverMap = MapDel(@, {key \in DOMAIN @ : @[key].lastUpdated > StaleWeeks})]
    /\ UNCHANGED <<gateVars, mail, batchVars, session, dns, probe, evidence, bounce>>

IntelNext ==
    \/ \E host \in SmtpHosts, verdict \in SmtpVerdicts : SmtpResult(host, verdict)
    \/ IntelWeek
    \/ IntelCleanup

IntelSpec == Init /\ [][IntelNext]_vars

HasNote(notes, note) == \E i \in 1..Len(notes) : notes[i] = note

\* A call of the handler's record-and-override step, before and after.
IntelCall ==
    \E host \in SmtpHosts, verdict \in SmtpVerdicts : SmtpResult(host, verdict)

\* The counters of the host of the last result, this result included.
lastRecord == serverRecord(serverIntel.serverMap, toLowerCase(serverIntel.last.host))

Reclassified ==
    /\ serverIntel.last.verdict = "accepted"
    /\ serverIntel.last.smtp = "catch-all"

\* C34: an accepted verdict is reported as catch-all, with the note on the
\* host's history and with status Risky where accepted gives Valid, exactly
\* when the host has 10 or more probes on record (this one included) and more
\* than 0.9 of them were accepted or catch-all; under 10 probes it stays accepted.
AcceptedOverride ==
    IntelCall /\ serverIntel'.last.verdict = "accepted" =>
        /\ Reclassified' <=>
              /\ serverIntel'.last.host # ""
              /\ lastRecord'.totalProbes >= 10
              /\ (lastRecord'.acceptedCount + lastRecord'.catchAllCount) * 10
                    > 9 * lastRecord'.totalProbes
        /\ Reclassified' =>
              /\ HasNote(serverIntel'.last.notes, HistoricalNote)
              /\ serverIntel'.last.status = "Risky"
        /\ ~Reclassified' =>
              /\ serverIntel'.last.smtp = "accepted"
              /\ ~HasNote(serverIntel'.last.notes, HistoricalNote)
              /\ serverIntel'.last.status = "Valid"
        /\ lastRecord'.totalProbes < 10 => ~Reclassified'

C34_SuspectedCatchAll == [][AcceptedOverride]_vars

\* The tenth probe of a host whose first nine were accepted is accepted too
\* and is reported as catch-all.
C34_Witness ==
    /\ Reclassified
    /\ lastRecord.totalProbes = 10
    /\ lastRecord.acceptedCount = 10
    /\ serverIntel.last.status = "Risky"

\* C35: the reported verdict differs from verifySmtp's only as accepted
\* turned into catch-all; nothing that was not accepted is reported accepted.
VerdictFrame ==
    IntelCall =>
        /\ serverIntel'.last.smtp # serverIntel'.last.verdict =>
              /\ serverIntel'.last.verdict = "accepted"
              /\ serverIntel'.last.smtp = "catch-all"
        /\ serverIntel'.last.verdict # "accepted" =>
              /\ serverIntel'.last.smtp = serverIntel'.last.verdict
              /\ ~HasNote(serverIntel'.last.notes, HistoricalNote)

C35_OnlyDowngrades == [][VerdictFrame]_vars

\* A rejected verdict of a host that is a suspected catch-all (ten accepted
\* out of eleven) is reported as rejected.
C35_Witness ==
    /\ serverIntel.last.verdict = "rejected"
    /\ serverIntel.last.smtp = "rejected"
    /\ lastRecord.totalProbes = 11
    /\ lastRecord.acceptedCount = 10
    /\ isSuspectedCatchAll(serverIntel.serverMap, serverIntel.last.host)

\* ------------------------------------------------------------- bounce-db.ts
\* Reports one record takes in a run.
MaxBounceReports == 2
\* checkBounceReportRate's maxPerMinute; a bucket lasts 1 minute. Records are
\* stale when the last report is more than 1 month (30 days) old.
MaxPerMinute == 5
BucketMinutes == 1
StaleMonths == 1

ReporterIps == {"10.0.0.1", "10.0.0.2"}

\* body.email of a report: one address in two spellings, and no address.
ReportEmails ==
    {<<" ", "Alice", "@", "example", "com", " ">>,
     <<"alice", "@", "example", "com">>,
     <<"alice", "example", "com">>}

\* The raw address of a verification: those, and an address nobody reports.
VerifyEmails == ReportEmails \cup {<<"bob", "@", "example", "com">>}

\* The SHA-256 digest is taken as the string it is computed from.
hashEmail(email) ==
    trimEnd(trimStart([i \in 1..Len(email) |-> toLowerCase(email[i])]))

NewBounceRecord == [count |-> 0, reporters |-> {}, lastReportedAt |-> 0]

bounceRecord(bounceMap, key) ==
    IF key \in DOMAIN bounceMap THEN bounceMap[key] ELSE NewBounceRecord

\* lastReportedAt is kept as Date.now() - lastReportedAt, in months, and no
\* further than the first value the cleanup deletes.
reportBounce(bounceMap, email, reporterIp) ==
    MapSet(bounceMap, hashEmail(email),
           [count |-> bounceRecord(bounceMap, hashEmail(email)).count + 1,
            reporters |-> bounceRecord(bounceMap, hashEmail(email)).reporters
                             \cup {reporterIp},
            lastReportedAt |-> 0])

\* Variant: every report counts as a reporter.
getBounceCountPerReport(bounceMap, email) ==
    [totalReports |-> bounceRecord(bounceMap, hashEmail(email)).count,
     uniqueReporters |-> bounceRecord(bounceMap, hashEmail(email)).count]

getBounceCount(bounceMap, email) ==
    [totalReports |-> bounceRecord(bounceMap, hashEmail(email)).count,
     uniqueReporters |-> Cardinality(bounceRecord(bounceMap, hashEmail(email)).reporters)]

\* checkBounceReportRate; expiresAt is kept as expiresAt - Date.now(), in minutes.
checkBounceReportRate(reportBuckets, ip) ==
    IF ip \notin DOMAIN reportBuckets \/ reportBuckets[ip].expiresAt <= 0
    THEN [allowed |-> TRUE,
          reportBuckets |-> MapSet(reportBuckets, ip,
                                   [count |-> 1, expiresAt |-> BucketMinutes])]
    ELSE IF reportBuckets[ip].count >= MaxPerMinute
    THEN [allowed |-> FALSE, reportBuckets |-> reportBuckets]
    ELSE [allowed |-> TRUE,
          reportBuckets |-> [reportBuckets EXCEPT ![ip].count = @ + 1]]

BounceNote(n) == <<"Previously reported as bouncing by", n, "users">>

\* body.email.trim().toLowerCase() of the report handler.
reportedEmail(raw) ==
    [i \in 1..Len(trimEnd(trimStart(raw))) |-> toLowerCase(trimEnd(trimStart(raw))[i])]

\* The bounce endpoint: 429 over the rate, 400 for an address that is not
\* valid, else the report is recorded and { ok: true } answered.
ReportBounce(ip, raw) ==
    /\ bounceRecord(bounce.bounceMap, hashEmail(raw)).count < MaxBounceReports
    /\ bounce' =
         IF ~checkBounceReportRate(bounce.reportBuckets, ip).allowed
         THEN [bounce EXCEPT
                  !.last = [op |-> "report", statusCode |-> 429, notes |-> <<>>]]
         ELSE IF ~isValidSyntax(reportedEmail(raw))
         THEN [bounce EXCEPT
                  !.reportBuckets = checkBounceReportRate(@, ip).reportBuckets,
                  !.last = [op |-> "report", statusCode |-> 400, notes |-> <<>>]]
         ELSE [bounce EXCEPT
                  !.reportBuckets = checkBounceReportRate(@, ip).reportBuckets,
                  !.bounceMap = reportBounce(@, reportedEmail(raw), ip),
                  !.reported = @ \cup {<<reportedEmail(raw), ip>>},
                  !.evicted = @ \ {<<reportedEmail(raw), ip>>},
                  !.last = [op |-> "report", statusCode |-> 200, notes |-> <<>>]]
    /\ UNCHANGED <<gateVars, mail, batchVars, session, dns, probe, evidence, serverIntel>>

\* The verify handler's bounce note for one raw address.
bounceNotes(bounceMap, syntaxOk, email) ==
    IF syntaxOk /\ getBounceCount(bounceMap, email).uniqueReporters >= 2
    THEN <<BounceNote(getBounceCount(bounceMap, email).uniqueReporters)>>
    ELSE <<>>

VerifyBounce(raw) ==
    /\ bounce' = [bounce EXCEPT
          !.last = [op |-> "verify", statusCode |-> 200,
                    notes |-> bounceNotes(bounce.bounceMap,
                                          isValidSyntax(normalizeEmail(raw)),
                                          normalizeEmail(raw))]]
    /\ UNCHANGED <<gateVars, mail, batchVars, session, dns, probe, evidence, serverIntel>>

\* A minute passes: the buckets expire.
BounceMinute ==
    /\ bounce' = [bounce EXCEPT
          !.reportBuckets = [ip \in DOMAIN @ |->
                                [@[ip] EXCEPT !.expiresAt = Max(@ - 1, 0)]]]
    /\ UNCHANGED <<gateVars, mail, batchVars, session, dns, probe, evidence, serverIntel>>

\* A month passes.
BounceMonth ==
    /\ bounce' = [bounce EXCEPT
          !.reportBuckets = [ip \in DOMAIN @ |-> [@[ip] EXCEPT !.expiresAt = 0]],
          !.bounceMap = [key \in DOMAIN @ |->
                            [@[key] EXCEPT
                                !.lastReportedAt = Min(@ + 1, StaleMonths + 1)]]]
    /\ UNCHANGED <<gateVars, mail, batchVars, session, dns, probe, evidence, serverIntel>>

\* The setInterval callback: stale records and expired buckets are deleted.
BounceCleanup ==
    /\ bounce' = [bounce EXCEPT
          !.bounceMap = MapDel(@, {key \in DOMAIN @ : @[key].lastReportedAt > StaleMonths}),
          !.reportBuckets = MapDel(@, {ip \in DOMAIN @ : @[ip].expiresAt <= 0}),
          !.evicted = @ \cup {pair \in bounce.reported :
                                 /\ pair[1] \in DOMAIN bounce.bounceMap
                                 /\ bounce.bounceMap[pair[1]].lastReportedAt > StaleMonths}]
    /\ UNCHANGED <<gateVars, mail, batchVars, session, dns, probe, evidence, serverIntel>>

BounceNext ==
    \/ \E ip \in ReporterIps, raw \in ReportEmails : ReportBounce(ip, raw)
    \/ \E raw \in VerifyEmails : VerifyBounce(raw)
    \/ BounceMinute
    \/ BounceMonth
    \/ BounceCleanup

BounceSpec == Init /\ [][BounceNext]_vars

\* The reporters whose report of an address was accepted, ever and since the
\* address's record was last deleted.
ReportersOf(email) == {ip \in ReporterIps : <<email, ip>> \in bounce.reported}
ReportersOnRecord(email) ==
    {ip \in ReporterIps : <<email, ip>> \in bounce.reported \ bounce.evicted}

\* The note of a verification, against the reporters ever.
NoteIffTwoReporters ==
    \A raw \in VerifyEmails :
        VerifyBounce(raw) =>
            (bounce'.last.notes # <<>>
                <=> Cardinality(ReportersOf(normalizeEmail(raw))) >= 2)

\* The note of a verification, against the reporters on record.
NoteIffTwoOnRecord ==
    \A raw \in VerifyEmails :
        VerifyBounce(raw) =>
            bounce'.last.notes =
                IF Cardinality(ReportersOnRecord(normalizeEmail(raw))) >= 2
                THEN <<BounceNote(Cardinality(ReportersOnRecord(normalizeEmail(raw))))>>
                ELSE <<>>

UniqueAtMostTotal ==
    \A raw \in VerifyEmails :
        getBounceCount(bounce.bounceMap, raw).uniqueReporters
            <= getBounceCount(bounce.bounceMap, raw).totalReports

\* A report by a reporter already on the address's record adds to
\* totalReports and leaves uniqueReporters as it was.
RepeatedReport ==
    \A ip \in ReporterIps, raw \in ReportEmails :
        /\ ReportBounce(ip, raw)
        /\ bounce'.last.statusCode = 200
        /\ <<reportedEmail(raw), ip>> \in bounce.reported \ bounce.evicted
        => /\ getBounceCount(bounce'.bounceMap, raw).uniqueReporters
                = getBounceCount(bounce.bounceMap, raw).uniqueReporters
           /\ getBounceCount(bounce'.bounceMap, raw).totalReports
                = getBounceCount(bounce.bounceMap, raw).totalReports + 1

\* C36 as stated: a verified address carries the bounce note exactly when two
\* or more distinct reporters had a report of it accepted, at any time before;
\* a repeated report of one reporter does not raise uniqueReporters, and
\* uniqueReporters is at most totalReports.
C36_AsStated ==
    [][NoteIffTwoReporters]_vars /\ []UniqueAtMostTotal /\ [][RepeatedReport]_vars

\* C36: a verified address carries the bounce note exactly when two or more
\* distinct reporters had a report of it accepted since its record was last
\* deleted as stale (30 days without a report); addresses are compared
\* lower-cased and trimmed; a repeated report of one reporter does not raise
\* uniqueReporters, and uniqueReporters is at most totalReports.
C36_BounceNote ==
    [][NoteIffTwoOnRecord]_vars /\ []UniqueAtMostTotal /\ [][RepeatedReport]_vars

\* alice@example.com was reported twice, by two reporters, one of them
\* spelling it " Alice@example.com ", and its verification carries the note.
C36_Witness ==
    /\ bounce.last.op = "verify"
    /\ bounce.last.notes = <<BounceNote(2)>>
    /\ bounce.reported = {<< <<"alice", "@", "example", "com">>, "10.0.0.1">>,
                          << <<"alice", "@", "example", "com">>, "10.0.0.2">>}
    /\ bounce.evicted = {}

\* ------------------------------------------------ refusal by the global ceiling
\* The step is the handler's code after readBody, ending in the 503 of the
\* global daily ceiling.
RefusedByGlobal ==
    /\ last'.op = "body"
    /\ inflight' # inflight
    /\ last'.status = 503

\* C37: a request refused by the global daily ceiling leaves the global
\* counter and the emailCount of the identity's daily bucket as they were
\* before the request.
C37_RefusalConsumesNothing ==
    [][RefusedByGlobal =>
          /\ GlobalAt(globalDailyEmails', globalResetsAt', now')
                = GlobalAt(globalDailyEmails, globalResetsAt, now)
          /\ EmailCountAt(dailyBuckets', now') = EmailCountAt(dailyBuckets, now)]_vars

\* ------------------------------------------------------- phase done is final
\* What a resolved session keeps, while verifySmtp has not opened another one.
DoneIsFinal ==
    (session.phase = "done" /\ session'.sessions = session.sessions) =>
        /\ session'.phase = "done"
        /\ session'.verdict = session.verdict
        /\ session'.code = session.code
        /\ session'.sent = session.sent

C39_RiskFlagNeverValid ==
    (evidence.pc = "status" /\ evidence.riskFlags # <<>>) => evidence.status # "Valid"

\* A role-based address of a domain with MX that the server accepted and
\* Microsoft confirmed: Risky.
C39_Witness ==
    /\ evidence.pc = "status"
    /\ evidence.riskFlags = <<"Role-based address">>
    /\ evidence.syntaxOk /\ evidence.domain # <<>> /\ evidence.mx = "true"
    /\ evidence.smtp = "accepted"
    /\ evidence.providers.microsoftExists = "true"
    /\ evidence.status = "Risky"

\* ------------------------------------------------ probes behind a promise queue
\* checkGravatar, checkPgpKey and checkAppleAccount chain every call on the
\* module's `queue` promise; their calls are the callers of probe, in the
\* order they were made.

\* Calls modelled, and the steps of the clock.
MaxQueued == 3
MaxQueueTicks == 5
QueueTickMs == 100

\* checkGravatar's MIN_INTERVAL_MS.
GRAVATAR_MIN_INTERVAL_MS == 200

\* One call: where it is, when its sleep ends, when its fetch went out, when
\* its promise settled and with what.
NewQueued ==
    [pc |-> "queued", wakeAt |-> 0, startedAt |-> -1, endedAt |-> -1, result |-> "none"]

\* Variant: the callback does not wait for the promise it is chained on.
chainedOnNothing(p, c) == TRUE

\* queue.then(...): the promise call c is chained on has settled, which is the
\* promise of the call before it with its rejection caught.
chained(p, c) == \A b \in 1..(c - 1) : p.callers[b].pc = "done"

\* The synchronous part of a call: p = queue.then(...); queue = p.catch(...).
QueueCall ==
    /\ Len(probe.callers) < MaxQueued
    /\ probe' = [probe EXCEPT !.callers = Append(@, NewQueued)]
    /\ UNCHANGED <<auxVars, gateVars, mail, batchVars, session, dns, evidence>>

\* The callback of a call up to its first await.
QueueStart(c) ==
    /\ probe.callers[c].pc = "queued"
    /\ chained(probe, c)
    /\ probe' = IF GRAVATAR_MIN_INTERVAL_MS - (probe.now - probe.lastCallTs) > 0
                THEN [probe EXCEPT
                         !.callers[c].pc = "sleeping",
                         !.callers[c].wakeAt =
                             probe.now + GRAVATAR_MIN_INTERVAL_MS
                                 - (probe.now - probe.lastCallTs)]
                ELSE startFetch(probe, c)
    /\ UNCHANGED <<auxVars, gateVars, mail, batchVars, session, dns, evidence>>

\* The sleep of a call is over.
QueueWake(c) ==
    /\ probe.callers[c].pc = "sleeping"
    /\ probe.callers[c].wakeAt <= probe.now
    /\ probe' = startFetch(probe, c)
    /\ UNCHANGED <<auxVars, gateVars, mail, batchVars, session, dns, evidence>>

\* The fetch of a call ends, with a response (true, false, null) or with an
\* error or the abort of its timer (null), and the call's promise resolves.
QueueSettle(c, result) ==
    /\ probe.callers[c].pc = "fetching"
    /\ probe' = [probe EXCEPT !.callers[c].pc = "done",
                              !.callers[c].endedAt = probe.now,
                              !.callers[c].result = result]
    /\ UNCHANGED <<auxVars, gateVars, mail, batchVars, session, dns, evidence>>

\* Time passes: no callback is due to run (promise callbacks run before any
\* timer), no sleep is over. The clock runs on while a call sleeps.
QueueTick ==
    /\ \/ probe.now < StartNow + MaxQueueTicks * QueueTickMs
       \/ \E c \in 1..Len(probe.callers) : probe.callers[c].pc = "sleeping"
    /\ \A c \in 1..Len(probe.callers) :
          /\ probe.callers[c].pc = "sleeping" => probe.callers[c].wakeAt > probe.now
          /\ probe.callers[c].pc = "queued" => ~chained(probe, c)
    /\ probe' = [probe EXCEPT !.now = @ + QueueTickMs]
    /\ UNCHANGED <<auxVars, gateVars, mail, batchVars, session, dns, evidence>>

QueueNext ==
    \/ QueueCall
    \/ \E c \in 1..Len(probe.callers) : QueueStart(c)
    \/ \E c \in 1..Len(probe.callers) : QueueWake(c)
    \/ \E c \in 1..Len(probe.callers), result \in TriState : QueueSettle(c, result)
    \/ QueueTick

\* Promise callbacks and timers that are due run, every fetch ends (by its
\* abort timer at the latest), and time passes.
QueueLive ==
    /\ Init /\ [][QueueNext]_vars
    /\ WF_vars(\E c \in 1..MaxQueued : c <= Len(probe.callers) /\ QueueStart(c))
    /\ WF_vars(\E c \in 1..MaxQueued : c <= Len(probe.callers) /\ QueueWake(c))
    /\ WF_vars(\E c \in 1..MaxQueued :
                  c <= Len(probe.callers) /\ QueueSettle(c, "null"))
    /\ WF_vars(QueueTick)

\* Between a call and every later one: the later one leaves the queue only
\* when the earlier one is done, and its fetch goes out no earlier than the end
\* of the earlier one and the minimum interval after the earlier one's start.
QueueInOrder ==
    \A a, b \in 1..Len(probe.callers) :
        a < b =>
            /\ probe.callers[b].pc # "queued" => probe.callers[a].pc = "done"
            /\ probe.callers[b].startedAt >= 0 =>
                  /\ probe.callers[a].endedAt >= probe.callers[a].startedAt
                  /\ probe.callers[a].startedAt >= 0
                  /\ probe.callers[b].startedAt >= probe.callers[a].endedAt
                  /\ probe.callers[b].startedAt - probe.callers[a].startedAt
                        >= GRAVATAR_MIN_INTERVAL_MS

QueueDrained == \A c \in 1..Len(probe.callers) : probe.callers[c].pc = "done"

\* C40: the calls of a queued probe run one at a time in the order they were
\* made; a call's fetch goes out only after the call before it has ended
\* (response, error or timeout) and at least the minimum interval after that
\* one's fetch went out; and whatever the calls before it ended with, every
\* call gets its turn and ends.
C40_QueuedOneAtATime == []QueueInOrder /\ <>[]QueueDrained

\* Three calls: the first failed at once, the second went out the minimum
\* interval after it and took longer than the interval, and the third went
\* out when the second had ended.
C40_Witness ==
    /\ Len(probe.callers) = 3
    /\ QueueDrained
    /\ probe.callers[1].result = "null"
    /\ probe.callers[1].endedAt = probe.callers[1].startedAt
    /\ probe.callers[2].startedAt = probe.callers[1].startedAt + GRAVATAR_MIN_INTERVAL_MS
    /\ probe.callers[2].endedAt > probe.callers[2].startedAt + GRAVATAR_MIN_INTERVAL_MS
    /\ probe.callers[3].startedAt = probe.callers[2].endedAt

====
